---- MODULE Spec2Model ----
(***************************************************************************)
(* A model of the ingestion/retrieval core of support-agent-one:           *)
(*   - DocumentStorage (app/services/document_storage.py): the documents   *)
(*     and document_chunks tables and the calls that write them, one       *)
(*     action per storage statement, each of which may fail;               *)
(*   - RateLimiter (app/utils/rate_limiter.py);                            *)
(*   - the embedding cache and generate_embeddings                         *)
(*     (app/utils/embedding_pipeline.py);                                  *)
(*   - get_embeddings and its retry decorator                              *)
(*     (app/services/openai_service.py);                                   *)
(*   - SearchService.search (app/services/search_service.py);              *)
(*   - chunk_text (app/utils/text_chunker.py).                             *)
(* Every subsystem has its own specification over the shared variables;    *)
(* the variables of the other subsystems stay at their initial values.     *)
(***************************************************************************)
EXTENDS Integers, Sequences, FiniteSets, TLC

(***************************************************************************)
(* Bounds of the model.                                                    *)
(***************************************************************************)
\* highest document version a call may start from
MaxVersion == 3
\* highest number of stored rows with the same (document_id, content, chunk_index)
MaxCopies == 1

\* RateLimiter: last tick of the clock
MaxTime == 3
\* RateLimiter: check_rate_limit calls in one behaviour
MaxCalls == 3
\* RateLimiter: largest max_requests and window_seconds a limiter is built with
MaxRequestsArg == 2
MaxWindowArg == 2

\* embedding pipeline: generate_embeddings calls between two clears of the cache
MaxEmbedCalls == 2
\* embedding pipeline under threads: calls begun between two clears of the cache
MaxCacheCalls == 3
\* embedding pipeline: longest list of texts passed to generate_embeddings
MaxTexts == 2
\* search: most rows in an answer of the store
MaxMatches == 3
\* chunk_text: longest text, and largest chunk_size and chunk_overlap
MaxTextLen == 4
MaxChunkSize == 3
\* get_embeddings: a caller of get_embeddings starts a call only while no text
\* was sent to the provider this many times
MaxProviderRequests == 2

(***************************************************************************)
(* Program constants.                                                      *)
(***************************************************************************)
\* DocumentStorage.BATCH_SIZE
BATCH_SIZE == 100
\* embedding_pipeline.DEFAULT_BATCH_SIZE
DEFAULT_BATCH_SIZE == 20
\* stop_after_attempt(5) of the retry decorator of get_embeddings
STOP_AFTER_ATTEMPT == 5
\* the local batch_size of get_embeddings
ApiBatchSize == 100
\* SearchService.DEFAULT_LIMIT
DEFAULT_LIMIT == 5
\* SearchService.CONTEXT_WINDOW_SIZE
CONTEXT_WINDOW_SIZE == 1

(***************************************************************************)
(* Input domains.                                                          *)
(***************************************************************************)
Procs == {"p1", "p2"}
DocIds == {"d1", "d2"}
Titles == {"t1", "t2"}
Contents == {"c1", "c2"}
MetaKeys == {"k"}
MetaVals == {1, 2}
\* python dicts over MetaKeys, as sets of <<key, value>> pairs with one pair per key
Dicts == {D \in SUBSET (MetaKeys \X MetaVals) :
            \A x \in D, y \in D : x[1] = y[1] => x = y}
\* lengths of the chunk lists a caller passes: none, one batch, two batches
ChunkLens == {0, 1, BATCH_SIZE + 1}
\* an Optional[...] argument: <<>> is None, <<x>> is the value x
NoneV == <<>>
Option(S) == {NoneV} \cup {<<x>> : x \in S}

VARIABLES
    \* ---- DocumentStorage ----
    documents,        \* table documents: rows [id, title, content, metadata, version]
    document_chunks,  \* table document_chunks: <<document_id, content, chunk_index>> -> number of rows
    pc,               \* per caller: the storage statement it is about to issue
    call,             \* per caller: the locals of the running call
    ret,              \* how the call that finished last ended
    nUpdates          \* per document id: update_document calls that returned since the insert

    ,
    \* ---- RateLimiter ----
    now,              \* time.time(), in ticks
    max_requests,     \* self.max_requests
    window_seconds,   \* self.window_seconds
    requests,         \* self.requests: key -> list of timestamps
    known,            \* the keys of the dict self.requests
    lock,             \* self.lock: the thread holding it, or "free"
    tpc,              \* per thread: its place in the method it runs
    tloc,             \* per thread: the locals of that method
    calls,            \* per key: <<current_time, result>> of every check_rate_limit call of the threads
    lret              \* what the limiter method that returned last returned

    ,
    \* ---- embedding_pipeline ----
    embedding_cache,  \* _embedding_cache: cache key -> <<vector>>, or <<>> where the key is absent
    cache_hits,       \* _cache_hits
    cache_misses,     \* _cache_misses
    epc,              \* the place of the generate_embeddings call in progress
    ecall,            \* its locals
    eret,             \* how the generate_embeddings call that finished last ended
    session           \* what happened since the cache was last empty

    ,
    \* ---- openai_service.get_embeddings ----
    gpc,              \* the place of the get_embeddings call in progress
    gcall,            \* its locals and the state of its retry decorator
    gret,             \* how the get_embeddings call that finished last ended
    requested,        \* per text: provider requests that contained it since the cache was last empty
    last_request      \* the provider request sent last: who sent it, and whether a
                      \* check_rate_limit("embeddings") call of its own admitted it

    ,
    \* ---- SearchService.search ----
    spc,              \* the place of the search call in progress
    scall,            \* its locals
    sret              \* how the search call that finished last ended, until the next begins

    ,
    \* ---- text_chunker.chunk_text ----
    kpc,              \* the place of the chunk_text call
    kcall             \* its arguments, its locals and the chunks it returned

    ,
    \* ---- embedding_pipeline under threads ----
    wpc,              \* per thread: its place in generate_embeddings or clear_embedding_cache
    wcall,            \* per thread: the locals of that call
    wlog              \* since the last clear: calls begun, texts looked up, <<key, vector>>
                      \* pairs written to the cache; and whether a KeyError was raised

storageVars == <<documents, document_chunks, pc, call, ret, nUpdates>>
limiterVars == <<now, max_requests, window_seconds, requests, known, lock,
                 tpc, tloc, calls, lret>>

embedVars == <<embedding_cache, cache_hits, cache_misses, epc, ecall, eret, session>>
clientVars == <<gpc, gcall, gret, requested, last_request>>
searchVars == <<spc, scall, sret>>

chunkVars == <<kpc, kcall>>
cacheVars == <<wpc, wcall, wlog>>
vars == <<storageVars, limiterVars, embedVars, clientVars, searchVars, chunkVars, cacheVars>>

(***************************************************************************)
(* DocumentStorage: helpers                                                *)
(***************************************************************************)
\* The rows of document_chunks are kept grouped by the insert statement that
\* wrote them: one insert writes the rows chunk_index lo..hi of one document
\* and one content, and a delete removes every row of a document, so that the
\* table is the bag of these <<document_id, content, <<lo, hi>>>> groups.
BatchRange(i, n) == <<i, (IF i + BATCH_SIZE < n THEN i + BATCH_SIZE ELSE n) - 1>>
AllRanges == {BatchRange(q[1], q[2]) :
                q \in {x \in {0, BATCH_SIZE} \X ChunkLens : x[1] < x[2]}}
ChunkKeys == DocIds \X Contents \X AllRanges

RECURSIVE SumCounts(_, _)
SumCounts(table, keys) ==
    IF keys = {} THEN 0
    ELSE LET k == CHOOSE x \in keys : TRUE
         IN  table[k] + SumCounts(table, keys \ {k})

\* number of rows with document_id d, content c and chunk_index j
RowCount(table, d, c, j) ==
    SumCounts(table, {k \in ChunkKeys : k[1] = d /\ k[2] = c /\ k[3][1] <= j /\ j <= k[3][2]})

\* number of rows with document_id d
RowsOfDocument(table, d) ==
    SumCounts(table, {k \in ChunkKeys : k[1] = d /\ table[k] > 0})

IdleCall == [op |-> "none", doc_id |-> "d1", chunks |-> 0, content |-> "c1",
             embeddings |-> 0, metadata_list |-> 0, i |-> 0,
             existing_doc |-> <<>>, replace_chunks |-> FALSE, chunk_delete |-> "none"]

\* what ret keeps of the locals of a call: of delete_document whether its
\* chunk delete went through, of a replacing update_document_with_chunks also
\* the new chunks, of update_document whether title, content and metadata
\* were all None
NoRetCall == [chunks |-> 0, content |-> "c1", replace_chunks |-> FALSE,
              chunk_delete |-> "none", no_changes |-> FALSE]
RetCall(c) ==
    IF c.op = "update_document_with_chunks" /\ c.replace_chunks
    THEN [NoRetCall EXCEPT !.chunks = c.chunks, !.content = c.content,
                           !.replace_chunks = TRUE,
                           !.chunk_delete = c.chunk_delete]
    ELSE IF c.op = "delete_document"
         THEN [NoRetCall EXCEPT !.chunk_delete = c.chunk_delete]
         ELSE NoRetCall

NoRet == [proc |-> "none", op |-> "none", doc_id |-> "d1", outcome |-> "none",
          value |-> "none", rollback |-> "none", reports |-> {},
          call |-> NoRetCall]

\* {**existing_metadata, **metadata}
MergeDicts(a, b) ==
    b \cup {x \in a : \A y \in b : y[1] # x[1]}

\* the row store_document builds (lines 60-66): metadata or {}, version 1
NewDocument(d, title, content, metadata) ==
    [id |-> d, title |-> title, content |-> content,
     metadata |-> IF metadata = NoneV THEN {} ELSE metadata[1],
     version |-> 1]

\* select * from documents where id = d
RowsWithId(table, d) == {r \in table : r.id = d}

\* the length checks of store_document_chunks (lines 237-245); a metadata_list
\* of None is length -1, and an empty list is falsy like None
LengthsOk(n, m, k) == n = m /\ (k <= 0 \/ n = k)

\* the rows chunk_records[i : i + BATCH_SIZE] of document d (lines 249-264),
\* inserted by one statement
InsertRows(table, d, content, i, n) ==
    [table EXCEPT ![<<d, content, BatchRange(i, n)>>] = @ + 1]

\* delete from document_chunks where document_id = d
DeleteRowsOf(table, d) ==
    [k \in ChunkKeys |-> IF k[1] = d THEN 0 ELSE table[k]]

\* mutant of DeleteDocumentsWithId: the filter on id inverted
DeleteDocumentsWithOtherId(table, d) == RowsWithId(table, d)

\* delete from documents where id = d
DeleteDocumentsWithId(table, d) == table \ RowsWithId(table, d)

\* a call may store the list (n, content) for d only while the copies bound allows it
CopiesAllow(table, d, content, n) ==
    \A i \in {x \in {0, BATCH_SIZE} : x < n} :
        RowCount(table, d, content, i) < MaxCopies

Finish(p, r) ==
    /\ UNCHANGED <<limiterVars, embedVars, clientVars, searchVars, chunkVars, cacheVars>>
    /\ pc' = [pc EXCEPT ![p] = "idle"]
    /\ call' = [call EXCEPT ![p] = IdleCall]
    /\ ret' = [r EXCEPT !.proc = p]

Goto(p, label, c) ==
    /\ UNCHANGED <<limiterVars, embedVars, clientVars, searchVars, chunkVars, cacheVars>>
    /\ pc' = [pc EXCEPT ![p] = label]
    /\ call' = [call EXCEPT ![p] = c]
    /\ UNCHANGED ret

Raised(op, d) == [NoRet EXCEPT !.op = op, !.doc_id = d, !.outcome = "raised"]
Returned(op, d) == [NoRet EXCEPT !.op = op, !.doc_id = d, !.outcome = "returned"]

(***************************************************************************)
(* DocumentStorage: the calls, one action per storage statement.  ok is    *)
(* the statement's outcome: a failed statement (an exception or a          *)
(* response.error) changes nothing in the store.  An action also runs the  *)
(* local code that follows its statement up to the next statement.  W is   *)
(* the workload: the argument values the callers of a specification pass.  *)
(***************************************************************************)

\* store_document_chunks raised: inside store_document_with_chunks the handler
\* of lines 381-385 runs next, elsewhere the error reaches the caller
StoreChunksRaised(p, c) ==
    IF c.op = "store_document_with_chunks"
    THEN Goto(p, "rollback", c)
    ELSE Finish(p, [Raised(c.op, c.doc_id) EXCEPT !.call = RetCall(c)])

StoreChunksReturned(p, c) ==
    Finish(p, [Returned(c.op, c.doc_id) EXCEPT !.call = RetCall(c)])

\* store_document_chunks up to its first insert (lines 236-263)
EnterStoreChunks(p, c) ==
    IF ~LengthsOk(c.chunks, c.embeddings, c.metadata_list)
    THEN StoreChunksRaised(p, c)
    ELSE IF c.chunks = 0
         THEN StoreChunksReturned(p, c)
         ELSE Goto(p, "insert_batch", [c EXCEPT !.i = 0])

\* store_document: the insert into documents (a second row with the same
\* primary key is refused by the store)
StoreDocument(p, W) ==
    /\ pc[p] = "idle"
    /\ \E d \in W.doc_ids, title \in W.titles, content \in W.contents,
          metadata \in W.metadata, ok \in BOOLEAN :
         IF ok /\ RowsWithId(documents, d) = {}
         THEN /\ documents' = documents \cup {NewDocument(d, title, content, metadata)}
              /\ nUpdates' = [nUpdates EXCEPT ![d] = 0]
              /\ Finish(p, Returned("store_document", d))
         ELSE /\ UNCHANGED <<documents, nUpdates>>
              /\ Finish(p, Raised("store_document", d))
    /\ UNCHANGED document_chunks

\* store_document_with_chunks: store_document, then store_document_chunks
\* with the chunks of the content
StoreDocumentWithChunks(p, W) ==
    /\ pc[p] = "idle"
    /\ \E d \in W.doc_ids, title \in W.titles, content \in W.contents,
          metadata \in W.metadata, ok \in BOOLEAN,
          n \in ChunkLens, m \in ChunkLens, k \in {-1} \cup ChunkLens :
         /\ CopiesAllow(document_chunks, d, content, n)
         /\ IF ok /\ RowsWithId(documents, d) = {}
            THEN /\ documents' = documents \cup {NewDocument(d, title, content, metadata)}
                 /\ nUpdates' = [nUpdates EXCEPT ![d] = 0]
                 /\ EnterStoreChunks(p, [IdleCall EXCEPT
                        !.op = "store_document_with_chunks", !.doc_id = d,
                        !.chunks = n, !.content = content,
                        !.embeddings = m, !.metadata_list = k])
            ELSE /\ UNCHANGED <<documents, nUpdates>>
                 /\ Finish(p, Raised("store_document_with_chunks", d))
    /\ UNCHANGED document_chunks

\* store_document_chunks called on its own
StoreDocumentChunks(p, W) ==
    /\ pc[p] = "idle"
    /\ \E d \in W.doc_ids, content \in W.contents,
          n \in ChunkLens, m \in ChunkLens, k \in {-1} \cup ChunkLens :
         /\ CopiesAllow(document_chunks, d, content, n)
         /\ EnterStoreChunks(p, [IdleCall EXCEPT
                !.op = "store_document_chunks", !.doc_id = d,
                !.chunks = n, !.content = content,
                !.embeddings = m, !.metadata_list = k])
    /\ UNCHANGED <<documents, document_chunks, nUpdates>>

\* one pass of the batch loop of store_document_chunks (lines 263-271)
InsertBatch(p) ==
    /\ pc[p] = "insert_batch"
    /\ LET c == call[p] IN
       \E ok \in BOOLEAN :
         IF ok
         THEN /\ document_chunks' = InsertRows(document_chunks,
                     c.doc_id, c.content, c.i, c.chunks)
              /\ IF c.i + BATCH_SIZE < c.chunks
                 THEN Goto(p, "insert_batch", [c EXCEPT !.i = c.i + BATCH_SIZE])
                 ELSE StoreChunksReturned(p, c)
         ELSE /\ UNCHANGED document_chunks
              /\ StoreChunksRaised(p, c)
    /\ UNCHANGED <<documents, nUpdates>>

\* the handler of store_document_with_chunks (lines 381-385):
\* delete_document(document_id, delete_chunks=False), whose failure
\* delete_document turns into False (lines 210-212), then raise: the
\* chunk_error is raised again and wrapped by line 389, so the failures the
\* raised error reports are that of store_document_chunks alone
Rollback(p) ==
    /\ pc[p] = "rollback"
    /\ LET c == call[p] IN
       \E ok \in BOOLEAN :
         /\ documents' = IF ok THEN DeleteDocumentsWithId(documents, c.doc_id)
                              ELSE documents
         /\ Finish(p, [Raised(c.op, c.doc_id) EXCEPT
                         !.rollback = IF ok THEN "done" ELSE "failed",
                         !.reports = {"store_document_chunks"},
                         !.call = RetCall(c)])
    /\ UNCHANGED <<document_chunks, nUpdates>>

\* delete_document(doc_id, delete_chunks): entry
DeleteDocument(p, W) ==
    /\ pc[p] = "idle"
    /\ \E d \in W.doc_ids, delete_chunks \in BOOLEAN :
         Goto(p, IF delete_chunks THEN "delete_chunks" ELSE "delete_document",
              [IdleCall EXCEPT !.op = "delete_document", !.doc_id = d,
                 !.chunk_delete = IF delete_chunks THEN "none" ELSE "skipped"])
    /\ UNCHANGED <<documents, document_chunks, nUpdates>>

\* delete_document_chunks called on its own: entry
DeleteDocumentChunks(p, W) ==
    /\ pc[p] = "idle"
    /\ \E d \in W.doc_ids :
         Goto(p, "delete_chunks",
              [IdleCall EXCEPT !.op = "delete_document_chunks", !.doc_id = d])
    /\ UNCHANGED <<documents, document_chunks, nUpdates>>

\* delete_document_chunks (lines 317-332): the delete; a failure is logged and
\* turned into False, which delete_document and update_document_with_chunks ignore
DeleteChunks(p) ==
    /\ pc[p] = "delete_chunks"
    /\ \E ok \in BOOLEAN :
       LET c == [call[p] EXCEPT !.chunk_delete = IF ok THEN "done" ELSE "failed"] IN
         /\ document_chunks' = IF ok THEN DeleteRowsOf(document_chunks, c.doc_id)
                                    ELSE document_chunks
         /\ CASE c.op = "delete_document" -> Goto(p, "delete_document", c)
              [] c.op = "update_document_with_chunks" -> EnterStoreChunks(p, c)
              [] OTHER -> Finish(p, [Returned(c.op, c.doc_id) EXCEPT
                                       !.value = IF ok THEN "True" ELSE "False",
                                       !.call = RetCall(c)])
    /\ UNCHANGED <<documents, nUpdates>>

\* delete_document (lines 196-212): the delete from documents
DeleteDocumentRow(p) ==
    /\ pc[p] = "delete_document"
    /\ LET c == call[p] IN
       \E ok \in BOOLEAN :
         /\ documents' = IF ok THEN DeleteDocumentsWithId(documents, c.doc_id)
                              ELSE documents
         /\ Finish(p, [Returned(c.op, c.doc_id) EXCEPT
                         !.value = IF ok /\ RowsWithId(documents, c.doc_id) # {}
                                   THEN "True" ELSE "False",
                         !.call = RetCall(c)])
    /\ UNCHANGED <<document_chunks, nUpdates>>

\* update_document (lines 108-112), also as the first step of
\* update_document_with_chunks: get_document, which answers None when the
\* select fails (lines 169-178)
UpdateGet(p, W) ==
    /\ pc[p] = "idle"
    /\ \E op \in W.update_ops, d \in W.doc_ids, ok \in BOOLEAN :
         /\ \A r \in RowsWithId(documents, d) : r.version < MaxVersion
         /\ IF ok /\ RowsWithId(documents, d) # {}
            THEN Goto(p, "update",
                      [IdleCall EXCEPT !.op = op, !.doc_id = d,
                         !.existing_doc = <<CHOOSE r \in RowsWithId(documents, d) : TRUE>>])
            ELSE Finish(p, Raised(op, d))
    /\ UNCHANGED <<documents, document_chunks, nUpdates>>

\* the version update_document writes (line 133)
NextVersion(existing_doc) == existing_doc.version + 1

\* update_data of update_document (lines 115-133) applied to the stored row:
\* the columns named in update_data are overwritten, the others keep the
\* value the row has now
UpdatedRow(row, existing_doc, title, content, metadata) ==
    [id |-> row.id,
     title |-> IF title = NoneV THEN row.title ELSE title[1],
     content |-> IF content = NoneV THEN row.content ELSE content[1],
     metadata |-> IF metadata = NoneV THEN row.metadata
                  ELSE IF existing_doc.metadata # {}
                       THEN MergeDicts(existing_doc.metadata, metadata[1])
                       ELSE metadata[1],
     version |-> NextVersion(existing_doc)]

\* update_document (lines 136-148): the update; no row with the id gives
\* "No data returned".  In update_document_with_chunks lines 426-441 follow.
UpdateWrite(p, W) ==
    /\ pc[p] = "update"
    /\ LET c == call[p]
           e == c.existing_doc[1]
           rows == RowsWithId(documents, c.doc_id)
       IN
       \E title \in {NoneV} \cup {<<x>> : x \in W.titles},
          content \in {NoneV} \cup {<<x>> : x \in W.contents},
          metadata \in W.metadata, ok \in BOOLEAN :
         IF ok /\ rows # {}
         THEN LET new == UpdatedRow(CHOOSE r \in rows : TRUE, e, title, content, metadata) IN
              /\ documents' = (documents \ rows) \cup {new}
              /\ nUpdates' = [nUpdates EXCEPT ![c.doc_id] = @ + 1]
              /\ IF c.op = "update_document"
                 THEN Finish(p, [Returned(c.op, c.doc_id) EXCEPT
                                   !.call.no_changes = /\ title = NoneV
                                                       /\ content = NoneV
                                                       /\ metadata = NoneV])
                 ELSE \E chunks \in ChunkLens, tag \in W.contents, m \in ChunkLens,
                         k \in {-1} \cup ChunkLens, replace_chunks \in BOOLEAN :
                        /\ CopiesAllow(document_chunks, c.doc_id, tag, chunks)
                        /\ LET c2 == [c EXCEPT !.chunks = chunks, !.content = tag,
                                               !.embeddings = m, !.metadata_list = k,
                                               !.existing_doc = <<>>,
                                               !.replace_chunks = replace_chunks]
                           IN  IF chunks > 0 /\ m > 0
                               THEN IF replace_chunks
                                    THEN Goto(p, "delete_chunks", c2)
                                    ELSE EnterStoreChunks(p, c2)
                               ELSE Goto(p, "get_chunks", [c EXCEPT !.existing_doc = <<>>])
         ELSE /\ UNCHANGED <<documents, nUpdates>>
              /\ Finish(p, Raised(c.op, c.doc_id))
    /\ UNCHANGED document_chunks

\* update_document_with_chunks (line 441): get_document_chunks, a read whose
\* failure is turned into [] (lines 297-305)
GetChunks(p) ==
    /\ pc[p] = "get_chunks"
    /\ Finish(p, Returned(call[p].op, call[p].doc_id))
    /\ UNCHANGED <<documents, document_chunks, nUpdates>>

\* a second document and its one chunk, stored before the calls of a
\* specification begin: the calls address d1 and must leave these rows alone
OtherDocument == NewDocument("d2", "t2", "c2", NoneV)
OtherChunk == <<"d2", "c2", BatchRange(0, 1)>>

InitStorage ==
    /\ documents = {OtherDocument}
    /\ document_chunks = [k \in ChunkKeys |-> IF k = OtherChunk THEN 1 ELSE 0]
    /\ pc = [p \in Procs |-> "idle"]
    /\ call = [p \in Procs |-> IdleCall]
    /\ ret = NoRet
    /\ nUpdates = [d \in DocIds |-> 0]

(***************************************************************************)
(* RateLimiter (app/utils/rate_limiter.py).  Every method body runs under  *)
(* self.lock; a thread inside a method takes one step per statement, and   *)
(* the clock may tick between any two steps.                               *)
(***************************************************************************)
Threads == Procs
Keys == {"embeddings", "completions"}
LimiterOps == {"check_rate_limit", "get_remaining_requests", "get_retry_after"}

IdleLocals == [op |-> "none", key |-> "embeddings", current_time |-> 0, filtered |-> <<>>]
NoLimiterRet == [op |-> "none", value |-> 0]

\* mutant of CanAcquire: the method bodies run without the lock
CanAcquireNoLock == TRUE

\* `with self.lock`: a thread enters only while no other thread holds the lock
CanAcquire == lock = "free"

\* mutant of InWindow: a timestamp exactly window_seconds old is kept
InWindowInclusive(current_time, ts) == current_time - ts <= window_seconds

\* the filter of lines 56-59 and 88-91
InWindow(current_time, ts) == current_time - ts < window_seconds

Prune(list, current_time) == SelectSeq(list, LAMBDA ts : InWindow(current_time, ts))

SeqMin(list) == CHOOSE x \in {list[i] : i \in 1 .. Len(list)} :
                    \A i \in 1 .. Len(list) : x <= list[i]

Max0(x) == IF x > 0 THEN x ELSE 0

TotalCalls == Len(calls["embeddings"]) + Len(calls["completions"])

\* leaving the with block with a return value
Release(t, value) ==
    /\ lock' = "free"
    /\ tpc' = [tpc EXCEPT ![t] = "idle"]
    /\ lret' = [op |-> tloc[t].op, value |-> value]
    /\ tloc' = [tloc EXCEPT ![t] = IdleLocals]

\* a thread calls a method and enters its with block
Enter(t) ==
    /\ tpc[t] = "idle"
    /\ CanAcquire
    /\ \E op \in LimiterOps, key \in Keys :
         /\ op = "check_rate_limit" => TotalCalls < MaxCalls
         /\ tloc' = [tloc EXCEPT ![t] = [IdleLocals EXCEPT !.op = op, !.key = key]]
    /\ lock' = t
    /\ tpc' = [tpc EXCEPT ![t] = "time"]
    /\ UNCHANGED <<now, max_requests, window_seconds, requests, known, calls, lret>>
    /\ UNCHANGED <<storageVars, searchVars, chunkVars, cacheVars, embedVars, clientVars>>

\* current_time = time.time() and the `key not in self.requests` test:
\* check_rate_limit adds the key (lines 49-53), get_remaining_requests
\* returns max_requests (lines 81-85), get_retry_after runs to its return
\* (lines 106-122)
ReadTime(t) ==
    /\ tpc[t] = "time"
    /\ LET l == tloc[t]
           list == requests[l.key]
       IN
       CASE l.op = "check_rate_limit" ->
              /\ known' = known \cup {l.key}
              /\ tloc' = [tloc EXCEPT ![t].current_time = now]
              /\ tpc' = [tpc EXCEPT ![t] = "filter"]
              /\ UNCHANGED <<lock, lret>>
         [] l.op = "get_remaining_requests" ->
              /\ UNCHANGED known
              /\ IF l.key \notin known
                 THEN Release(t, max_requests)
                 ELSE /\ tloc' = [tloc EXCEPT ![t].current_time = now]
                      /\ tpc' = [tpc EXCEPT ![t] = "filter"]
                      /\ UNCHANGED <<lock, lret>>
         [] OTHER ->
              /\ UNCHANGED known
              /\ Release(t, IF l.key \notin known THEN 0
                            ELSE IF Len(list) < max_requests THEN 0
                            ELSE IF list # <<>>
                                 THEN Max0(SeqMin(list) + window_seconds - now)
                                 ELSE 0)
    /\ UNCHANGED <<now, max_requests, window_seconds, requests, calls>>
    /\ UNCHANGED <<storageVars, searchVars, chunkVars, cacheVars, embedVars, clientVars>>

\* the list comprehension of lines 56-59 and 88-91 is evaluated
Filter(t) ==
    /\ tpc[t] = "filter"
    /\ tloc' = [tloc EXCEPT ![t].filtered =
                    Prune(requests[tloc[t].key], tloc[t].current_time)]
    /\ tpc' = [tpc EXCEPT ![t] = "assign"]
    /\ UNCHANGED <<now, max_requests, window_seconds, requests, known, lock, calls, lret>>
    /\ UNCHANGED <<storageVars, searchVars, chunkVars, cacheVars, embedVars, clientVars>>

\* and its value is assigned to self.requests[key]
Assign(t) ==
    /\ tpc[t] = "assign"
    /\ requests' = [requests EXCEPT ![tloc[t].key] = tloc[t].filtered]
    /\ tloc' = [tloc EXCEPT ![t].filtered = <<>>]
    /\ tpc' = [tpc EXCEPT ![t] = "decide"]
    /\ UNCHANGED <<now, max_requests, window_seconds, known, lock, calls, lret>>
    /\ UNCHANGED <<storageVars, searchVars, chunkVars, cacheVars, embedVars, clientVars>>

\* check_rate_limit lines 61-68: admit and record the timestamp, or refuse;
\* get_remaining_requests line 93
Decide(t) ==
    /\ tpc[t] = "decide"
    /\ LET l == tloc[t]
           list == requests[l.key]
       IN
       IF l.op = "check_rate_limit"
       THEN IF Len(list) < max_requests
            THEN /\ requests' = [requests EXCEPT ![l.key] = Append(list, l.current_time)]
                 /\ calls' = [calls EXCEPT ![l.key] = Append(@, <<l.current_time, TRUE>>)]
                 /\ Release(t, 1)
            ELSE /\ calls' = [calls EXCEPT ![l.key] = Append(@, <<l.current_time, FALSE>>)]
                 /\ UNCHANGED requests
                 /\ Release(t, 0)
       ELSE /\ UNCHANGED <<requests, calls>>
            /\ Release(t, Max0(max_requests - Len(list)))
    /\ UNCHANGED <<now, max_requests, window_seconds, known>>
    /\ UNCHANGED <<storageVars, searchVars, chunkVars, cacheVars, embedVars, clientVars>>

\* the clock advances
Tick ==
    /\ now < MaxTime
    /\ now' = now + 1
    /\ UNCHANGED <<max_requests, window_seconds, requests, known, lock, tpc, tloc, calls, lret>>
    /\ UNCHANGED <<storageVars, searchVars, chunkVars, cacheVars, embedVars, clientVars>>

\* RateLimiter.__init__ (lines 32-35) with max_requests and window_seconds
\* any positive values up to the bounds
InitLimiter ==
    /\ now = 0
    /\ max_requests \in 1 .. MaxRequestsArg
    /\ window_seconds \in 1 .. MaxWindowArg
    /\ requests = [k \in Keys |-> <<>>]
    /\ known = {}
    /\ lock = "free"
    /\ tpc = [t \in Threads |-> "idle"]
    /\ tloc = [t \in Threads |-> IdleLocals]
    /\ calls = [k \in Keys |-> <<>>]
    /\ lret = NoLimiterRet

\* the limiter of a specification that never calls it
InitLimiterIdle ==
    /\ InitLimiter
    /\ max_requests = 1
    /\ window_seconds = 1

NextLimiter ==
    \/ \E t \in Threads :
        \/ Enter(t)
        \/ ReadTime(t)
        \/ Filter(t)
        \/ Assign(t)
        \/ Decide(t)
    \/ Tick

(***************************************************************************)
(* openai_service.get_embeddings and its retry decorator.  One action per  *)
(* statement that talks to the outside: the rate limiter check and each    *)
(* client.embeddings.create request, which the provider answers with the   *)
(* vectors or with an error.                                               *)
(***************************************************************************)
Texts == {"a", "b"}
\* the vector the provider computes for a text
Embedding == [a |-> <<1>>, b |-> <<2>>]

\* openai.RateLimitError and openai.APITimeoutError
TransientErrors == {"RateLimitError", "APITimeoutError"}
\* openai.AuthenticationError and openai.BadRequestError
FatalErrors == {"AuthenticationError", "BadRequestError"}
\* the subclasses of openai.OpenAIError the provider call raises
OpenAIErrors == TransientErrors \cup FatalErrors
ProviderAnswers == {"ok"} \cup OpenAIErrors

IdleGet == [texts |-> <<>>, i |-> 0, all_embeddings |-> <<>>, attempt_number |-> 0,
            create_calls |-> 0, batch_sleeps |-> 0, backoff_sleeps |-> 0,
            provider_error |-> "none", admitted |-> FALSE]
NoRequest == [sender |-> "none", checked |-> FALSE]
NoGetRet == [outcome |-> "none", error |-> "none", texts |-> <<>>, value |-> <<>>,
             attempts |-> 0, create_calls |-> 0, batch_sleeps |-> 0, backoff_sleeps |-> 0,
             provider_error |-> "none", failed_at |-> 0, retry_after |-> 0]

\* mutant of RetryIf: every exception is retried
RetryIfAny(exception) == TRUE

\* retry=retry_if_exception_type((openai.RateLimitError, openai.APITimeoutError))
RetryIf(exception) == exception \in TransientErrors

\* `except openai.OpenAIError as e: raise OpenAIServiceError(...)`: the
\* exception that leaves the function body when exception is raised inside it
ExceptClause(exception) ==
    IF exception \in OpenAIErrors THEN "OpenAIServiceError" ELSE exception

Min(x, y) == IF x < y THEN x ELSE y

\* texts[i:i+n] of a python list, i counted from 0
Slice(list, i, n) == SubSeq(list, i + 1, Min(i + n, Len(list)))

\* the call ends: gret records it
GetFinished(c, outcome, error, value, retry_after) ==
    /\ gpc' = "idle"
    /\ gcall' = IdleGet
    /\ gret' = [outcome |-> outcome, error |-> error, texts |-> c.texts, value |-> value,
                attempts |-> c.attempt_number, create_calls |-> c.create_calls,
                batch_sleeps |-> c.batch_sleeps, backoff_sleeps |-> c.backoff_sleeps,
                provider_error |-> c.provider_error, failed_at |-> c.i,
                retry_after |-> retry_after]

\* an exception leaves the function body with locals c: the decorator retries
\* it after a backoff sleep, gives up with RetryError after the last attempt,
\* or re-raises it
Raise(c, exception, retry_after) ==
    IF RetryIf(exception)
    THEN IF c.attempt_number >= STOP_AFTER_ATTEMPT
         THEN GetFinished(c, "raised", "RetryError", <<>>, retry_after)
         ELSE /\ gpc' = "check"
              /\ gcall' = [c EXCEPT !.attempt_number = @ + 1, !.backoff_sleeps = @ + 1,
                                    !.i = 0, !.all_embeddings = <<>>,
                                    !.admitted = FALSE]
              /\ UNCHANGED gret
    ELSE GetFinished(c, "raised", exception, <<>>, retry_after)

\* get_embeddings(texts) is called: the decorator starts attempt 1
StartGetEmbeddings(texts) ==
    /\ gpc = "idle"
    /\ gpc' = "check"
    /\ gcall' = [IdleGet EXCEPT !.texts = texts, !.attempt_number = 1]
    /\ UNCHANGED <<gret, requested, last_request>>

\* get_retry_after("embeddings") on the list of timestamps of the key
RetryAfter(list) ==
    IF Len(list) < max_requests THEN 0
    ELSE IF list # <<>> THEN Max0(SeqMin(list) + window_seconds - now)
    ELSE 0

\* lines 78-86: rate_limiter.check_rate_limit("embeddings"), then either
\* RateLimitExceededError(retry_after) or the start of the batch loop; an
\* empty list of texts is returned as []
CheckLimit ==
    /\ gpc = "check"
    /\ lock = "free"
    /\ LET list == Prune(requests["embeddings"], now)
           admitted == Len(list) < max_requests
       IN
       /\ known' = known \cup {"embeddings"}
       /\ requests' = [requests EXCEPT !["embeddings"] =
                          IF admitted THEN Append(list, now) ELSE list]
       /\ IF ~admitted
          THEN Raise(gcall, ExceptClause("RateLimitExceededError"), RetryAfter(list))
          ELSE IF gcall.texts = <<>>
               THEN GetFinished(gcall, "returned", "none", <<>>, 0)
               ELSE /\ gpc' = "create"
                    /\ gcall' = [gcall EXCEPT !.admitted = TRUE]
                    /\ UNCHANGED gret
    /\ UNCHANGED <<now, max_requests, window_seconds, lock, tpc, tloc, calls, lret>>
    /\ UNCHANGED <<requested, last_request>>
    /\ UNCHANGED <<storageVars, searchVars, chunkVars, cacheVars, embedVars>>

\* lines 88-104: one client.embeddings.create request for texts[i:i+100];
\* the provider answers with one vector per text or with an error
Create ==
    /\ gpc = "create"
    /\ LET batch == Slice(gcall.texts, gcall.i, ApiBatchSize)
           sent == [gcall EXCEPT !.create_calls = @ + 1, !.admitted = FALSE]
       IN
       /\ last_request' = [sender |-> "get_embeddings", checked |-> gcall.admitted]
       /\ requested' = [t \in Texts |->
              IF \E j \in 1 .. Len(batch) : batch[j] = t
              THEN requested[t] + 1 ELSE requested[t]]
       /\ \E answer \in ProviderAnswers :
            IF answer = "ok"
            THEN LET all == gcall.all_embeddings \o
                              [j \in 1 .. Len(batch) |-> Embedding[batch[j]]]
                 IN
                 IF gcall.i + ApiBatchSize < Len(gcall.texts)
                 THEN /\ gcall' = [sent EXCEPT !.all_embeddings = all,
                                               !.i = @ + ApiBatchSize,
                                               !.batch_sleeps = @ + 1]
                      /\ UNCHANGED <<gpc, gret>>
                 ELSE GetFinished(sent, "returned", "none", all, 0)
            ELSE Raise([sent EXCEPT !.provider_error = answer], ExceptClause(answer), 0)
    /\ UNCHANGED <<limiterVars, storageVars, searchVars, chunkVars, cacheVars, embedVars>>

InitClient ==
    /\ gpc = "idle"
    /\ gcall = IdleGet
    /\ gret = NoGetRet
    /\ requested = [t \in Texts |-> 0]
    /\ last_request = NoRequest

\* a caller other than generate_embeddings calls get_embeddings(texts)
GetEmbeddings(W) ==
    /\ epc = "idle"
    /\ \A t \in Texts : requested[t] < MaxProviderRequests
    /\ \E texts \in W.texts : StartGetEmbeddings(texts)
    /\ UNCHANGED <<limiterVars, storageVars, searchVars, chunkVars, cacheVars, embedVars>>

(***************************************************************************)
(* embedding_pipeline: the module-level cache and generate_embeddings,     *)
(* which looks the texts up, sends the misses to get_embeddings batch by   *)
(* batch, writes the cache and merges the result.                          *)
(***************************************************************************)
\* hashlib.md5(text).hexdigest(), first eight digits
MD5 == [a |-> "0cc175b9", b |-> "92eb5ffe"]
GetCacheKey(text) == MD5[text]
CacheKeys == {GetCacheKey(t) : t \in Texts}

\* the lists of texts of at most MaxTexts texts
TextLists == UNION {[1 .. n -> Texts] : n \in 0 .. MaxTexts}

\* list[i] of a python list, i counted from 0
At(list, i) == list[i + 1]
\* list(range(n))
Range(n) == [k \in 1 .. n |-> k - 1]
\* [f[x] for x in list]
MapSeq(f, list) == [k \in 1 .. Len(list) |-> f[list[k]]]
\* does list contain x
Contains(list, x) == \E k \in 1 .. Len(list) : list[k] = x

IdleEmbed == [texts |-> <<>>, batch_size |-> 0, use_cache |-> FALSE,
              all_embeddings |-> <<>>, uncached_texts |-> <<>>,
              uncached_indices |-> <<>>, i |-> 0, embeddings_by_index |-> {}]
NoEmbedRet == [outcome |-> "none", texts |-> <<>>, use_cache |-> FALSE, value |-> <<>>]
NewSession == [calls |-> 0, cached_calls_only |-> TRUE, duplicates |-> FALSE,
               lookups |-> [t \in Texts |-> 0]]

\* `cache_key in _embedding_cache` for texts[i]
IsCached(texts, i) == embedding_cache[GetCacheKey(At(texts, i))] # NoneV

\* embeddings_by_index[i] of the dict kept as a set of <<index, vector>> pairs
ByIndex(by_index, i) == (CHOOSE x \in by_index : x[1] = i)[2]
HasIndex(by_index, i) == \E x \in by_index : x[1] = i

\* lines 131-138 for one batch: the dict after the assignments of line 133
StoreByIndex(by_index, batch_indices, batch_embeddings) ==
    by_index \cup {<<batch_indices[j], batch_embeddings[j]>> :
                      j \in 1 .. Len(batch_embeddings)}

\* and the cache after the assignments of line 138, which take their key from
\* uncached_texts[j], j being the position inside the batch; the last
\* assignment to a key wins
UpdateCache(cache, uncached_texts, batch_embeddings) ==
    [h \in CacheKeys |->
        LET J == {j \in 0 .. Len(batch_embeddings) - 1 :
                      GetCacheKey(At(uncached_texts, j)) = h}
        IN IF J = {} THEN cache[h]
           ELSE <<At(batch_embeddings, CHOOSE j \in J : \A k \in J : k <= j)>>]

\* lines 145-152: the list generate_embeddings returns
Merge(c, by_index) ==
    IF c.use_cache
    THEN c.all_embeddings \o
           MapSeq([i \in 0 .. Len(c.texts) - 1 |-> ByIndex(by_index, i)],
                  SelectSeq(Range(Len(c.texts)), LAMBDA i : HasIndex(by_index, i)))
    ELSE [k \in 1 .. Len(c.texts) |-> ByIndex(by_index, k - 1)]

EmbedFinished(c, outcome, value) ==
    /\ epc' = "idle"
    /\ ecall' = IdleEmbed
    /\ eret' = [outcome |-> outcome, texts |-> c.texts, use_cache |-> c.use_cache,
                value |-> value]

\* generate_embeddings(texts, batch_size, use_cache) up to its first batch:
\* lines 95-120, and line 155 where nothing is left to request
GenerateEmbeddings(W) ==
    /\ epc = "idle"
    /\ gpc = "idle"
    /\ session.calls < MaxEmbedCalls
    /\ \E texts \in W.texts, batch_size \in W.batch_sizes, use_cache \in BOOLEAN :
         LET indices == Range(Len(texts))
             hits == IF use_cache
                     THEN SelectSeq(indices, LAMBDA i : IsCached(texts, i))
                     ELSE <<>>
             misses == IF use_cache
                       THEN SelectSeq(indices, LAMBDA i : ~IsCached(texts, i))
                       ELSE indices
             c == [IdleEmbed EXCEPT
                     !.texts = texts, !.batch_size = batch_size, !.use_cache = use_cache,
                     !.all_embeddings =
                         [k \in 1 .. Len(hits) |->
                             embedding_cache[GetCacheKey(At(texts, hits[k]))][1]],
                     !.uncached_texts = [k \in 1 .. Len(misses) |-> At(texts, misses[k])],
                     !.uncached_indices = misses]
         IN
         /\ session' = [calls |-> session.calls + 1,
                        cached_calls_only |-> session.cached_calls_only /\ use_cache,
                        duplicates |-> session.duplicates \/
                            \E j \in 1 .. Len(texts), k \in 1 .. Len(texts) :
                                j # k /\ texts[j] = texts[k],
                        lookups |-> [t \in Texts |->
                            IF Contains(texts, t) THEN session.lookups[t] + 1
                            ELSE session.lookups[t]]]
         /\ IF texts = <<>>
            THEN /\ UNCHANGED <<cache_hits, cache_misses>>
                 /\ EmbedFinished(c, "returned", <<>>)
            ELSE /\ cache_hits' = cache_hits + Len(hits)
                 /\ cache_misses' = IF use_cache THEN cache_misses + Len(misses)
                                    ELSE cache_misses
                 /\ IF misses = <<>>
                    THEN EmbedFinished(c, "returned", c.all_embeddings)
                    ELSE /\ epc' = "batch"
                         /\ ecall' = c
                         /\ UNCHANGED eret
    /\ UNCHANGED embedding_cache
    /\ UNCHANGED <<limiterVars, storageVars, searchVars, chunkVars, cacheVars, clientVars>>

\* lines 124-128: the next batch is handed to get_embeddings
EmbedBatch ==
    /\ epc = "batch"
    /\ StartGetEmbeddings(Slice(ecall.uncached_texts, ecall.i, ecall.batch_size))
    /\ epc' = "waiting"
    /\ UNCHANGED <<embedding_cache, cache_hits, cache_misses, ecall, eret, session>>
    /\ UNCHANGED <<limiterVars, storageVars, searchVars, chunkVars, cacheVars>>

\* get_embeddings has ended.  Its exception leaves generate_embeddings too;
\* its vectors are stored by index and in the cache (lines 131-138), and then
\* the loop goes on (141-142) or the result is merged and returned (145-155)
BatchDone ==
    /\ epc = "waiting"
    /\ gpc = "idle"
    /\ IF gret.outcome = "raised"
       THEN /\ EmbedFinished(ecall, "raised", <<>>)
            /\ session' = [session EXCEPT !.cached_calls_only = FALSE]
            /\ UNCHANGED embedding_cache
       ELSE LET batch_indices == Slice(ecall.uncached_indices, ecall.i, ecall.batch_size)
                by_index == StoreByIndex(ecall.embeddings_by_index, batch_indices, gret.value)
            IN
            /\ embedding_cache' =
                   IF ecall.use_cache
                   THEN UpdateCache(embedding_cache, ecall.uncached_texts, gret.value)
                   ELSE embedding_cache
            /\ UNCHANGED session
            /\ IF ecall.i + ecall.batch_size < Len(ecall.uncached_texts)
               THEN /\ epc' = "batch"
                    /\ ecall' = [ecall EXCEPT !.i = @ + ecall.batch_size,
                                              !.embeddings_by_index = by_index]
                    /\ UNCHANGED eret
               ELSE EmbedFinished(ecall, "returned", Merge(ecall, by_index))
    /\ UNCHANGED <<cache_hits, cache_misses>>
    /\ UNCHANGED <<limiterVars, storageVars, searchVars, chunkVars, cacheVars, clientVars>>

\* clear_embedding_cache()
ClearEmbeddingCache ==
    /\ epc = "idle"
    /\ gpc = "idle"
    /\ embedding_cache' = [h \in CacheKeys |-> NoneV]
    /\ cache_hits' = 0
    /\ cache_misses' = 0
    /\ session' = NewSession
    /\ requested' = [t \in Texts |-> 0]
    /\ UNCHANGED <<epc, ecall, eret, gpc, gcall, gret, last_request>>
    /\ UNCHANGED <<limiterVars, storageVars, searchVars, chunkVars, cacheVars>>

InitEmbed ==
    /\ embedding_cache = [h \in CacheKeys |-> NoneV]
    /\ cache_hits = 0
    /\ cache_misses = 0
    /\ epc = "idle"
    /\ ecall = IdleEmbed
    /\ eret = NoEmbedRet
    /\ session = NewSession

(***************************************************************************)
(* embedding_pipeline under threads.  generate_embeddings and              *)
(* clear_embedding_cache take no lock: the threads of a serving process    *)
(* run them statement by statement on the module-level _embedding_cache,   *)
(* _cache_hits and _cache_misses.  A dict operation is one step; the       *)
(* augmented assignment `_cache_hits += 1` is a read of the global and a   *)
(* write of it, two steps.  get_embeddings is the provider's answer.       *)
(***************************************************************************)
IdleCacheCall ==
    [op |-> "none", texts |-> <<>>, batch_size |-> 0, use_cache |-> FALSE,
     i |-> 0, loaded |-> 0, all_embeddings |-> <<>>, uncached_texts |-> <<>>,
     uncached_indices |-> <<>>, j |-> 0, batch_embeddings |-> <<>>,
     embeddings_by_index |-> {}]

\* nothing looked up and nothing written since the cache was cleared
NoCacheLog == [calls |-> 0, looked_up |-> 0, written |-> {}, key_errors |-> 0]

\* the call of thread t ends, by return or by an exception
CacheCallEnds(t) ==
    /\ wpc' = [wpc EXCEPT ![t] = "idle"]
    /\ wcall' = [wcall EXCEPT ![t] = IdleCacheCall]

\* thread t goes on at place with the locals c
CacheCallGoes(t, place, c) ==
    /\ wpc' = [wpc EXCEPT ![t] = place]
    /\ wcall' = [wcall EXCEPT ![t] = c]

\* thread t goes on at place with the locals c, or returns (lines 144-155)
CacheCallGoesOrReturns(t, place, c) ==
    IF place = "return" THEN CacheCallEnds(t) ELSE CacheCallGoes(t, place, c)

\* the place after the lookup of texts[i] (lines 106-114): the next text, the
\* first batch (line 123), or the return of line 155
AfterLookup(c) ==
    IF c.i + 1 < Len(c.texts) THEN "test"
    ELSE IF c.uncached_texts # <<>> THEN "get_embeddings"
         ELSE "return"

\* the place after the assignments for batch_embeddings[j] (lines 131-142):
\* the next vector, the next batch, or the return of line 155
AfterStore(c) ==
    IF c.j + 1 < Len(c.batch_embeddings) THEN "store"
    ELSE IF c.i + c.batch_size < Len(c.uncached_texts) THEN "get_embeddings"
         ELSE "return"

\* generate_embeddings(texts, batch_size, use_cache) is called (lines 79-104,
\* 115-117)
ThreadGenerateEmbeddings(t, W) ==
    /\ wpc[t] = "idle"
    /\ wlog.calls < MaxCacheCalls
    /\ wlog' = [wlog EXCEPT !.calls = @ + 1]
    /\ \E texts \in W.texts, batch_size \in W.batch_sizes, use_cache \in BOOLEAN :
         LET c == [IdleCacheCall EXCEPT !.op = "generate_embeddings", !.texts = texts,
                                        !.batch_size = batch_size,
                                        !.use_cache = use_cache]
         IN IF texts = <<>> THEN CacheCallEnds(t)
            ELSE IF use_cache THEN CacheCallGoes(t, "test", c)
                 ELSE CacheCallGoes(t, "get_embeddings",
                                    [c EXCEPT !.uncached_texts = texts,
                                              !.uncached_indices = Range(Len(texts))])
    /\ UNCHANGED <<embedding_cache, cache_hits, cache_misses>>
    /\ UNCHANGED <<epc, ecall, eret, session>>
    /\ UNCHANGED <<limiterVars, storageVars, searchVars, chunkVars, clientVars>>

\* line 108: `if cache_key in _embedding_cache` for texts[i]; the miss is
\* noted in the locals (lines 112-113)
ThreadTest(t) ==
    /\ wpc[t] = "test"
    /\ LET c == wcall[t]
       IN IF IsCached(c.texts, c.i)
          THEN CacheCallGoes(t, "append", c)
          ELSE CacheCallGoes(t, "load_misses",
                   [c EXCEPT !.uncached_texts = Append(@, At(c.texts, c.i)),
                             !.uncached_indices = Append(@, c.i)])
    /\ wlog' = [wlog EXCEPT !.looked_up = @ + 1]
    /\ UNCHANGED <<embedding_cache, cache_hits, cache_misses>>
    /\ UNCHANGED <<epc, ecall, eret, session>>
    /\ UNCHANGED <<limiterVars, storageVars, searchVars, chunkVars, clientVars>>

\* line 109: all_embeddings.append(_embedding_cache[cache_key]), a KeyError
\* where the key is no longer there
ThreadAppend(t) ==
    /\ wpc[t] = "append"
    /\ LET c == wcall[t]
           cached == embedding_cache[GetCacheKey(At(c.texts, c.i))]
       IN IF cached = NoneV
          THEN /\ CacheCallEnds(t)
               /\ wlog' = [wlog EXCEPT !.key_errors = 1]
          ELSE /\ CacheCallGoes(t, "load_hits",
                                [c EXCEPT !.all_embeddings = Append(@, cached[1])])
               /\ UNCHANGED wlog
    /\ UNCHANGED <<embedding_cache, cache_hits, cache_misses>>
    /\ UNCHANGED <<epc, ecall, eret, session>>
    /\ UNCHANGED <<limiterVars, storageVars, searchVars, chunkVars, clientVars>>

\* lines 110 and 114: the counter is read
ThreadLoadCounter(t) ==
    /\ wpc[t] \in {"load_hits", "load_misses"}
    /\ LET c == wcall[t]
       IN IF wpc[t] = "load_hits"
          THEN CacheCallGoes(t, "store_hits", [c EXCEPT !.loaded = cache_hits])
          ELSE CacheCallGoes(t, "store_misses", [c EXCEPT !.loaded = cache_misses])
    /\ UNCHANGED <<embedding_cache, cache_hits, cache_misses, wlog>>
    /\ UNCHANGED <<epc, ecall, eret, session>>
    /\ UNCHANGED <<limiterVars, storageVars, searchVars, chunkVars, clientVars>>

\* lines 110 and 114: the counter is written, one more than was read
ThreadStoreCounter(t) ==
    /\ wpc[t] \in {"store_hits", "store_misses"}
    /\ LET c == wcall[t]
       IN /\ IF wpc[t] = "store_hits"
             THEN cache_hits' = c.loaded + 1 /\ UNCHANGED cache_misses
             ELSE cache_misses' = c.loaded + 1 /\ UNCHANGED cache_hits
          /\ CacheCallGoesOrReturns(t, AfterLookup(c),
                 [c EXCEPT !.i = IF AfterLookup(c) = "test" THEN @ + 1 ELSE 0,
                           !.loaded = 0])
    /\ UNCHANGED <<embedding_cache, wlog>>
    /\ UNCHANGED <<epc, ecall, eret, session>>
    /\ UNCHANGED <<limiterVars, storageVars, searchVars, chunkVars, clientVars>>

\* lines 124-128: get_embeddings(batch) returns the vectors of the batch that
\* begins at uncached_texts[i], or raises
ThreadGetEmbeddings(t) ==
    /\ wpc[t] = "get_embeddings"
    /\ LET c == wcall[t]
           batch == Slice(c.uncached_texts, c.i, c.batch_size)
       IN \/ CacheCallEnds(t)
          \/ CacheCallGoes(t, "store",
                 [c EXCEPT !.j = 0,
                           !.batch_embeddings = [k \in 1 .. Len(batch) |->
                                                    Embedding[batch[k]]]])
    /\ UNCHANGED <<embedding_cache, cache_hits, cache_misses, wlog>>
    /\ UNCHANGED <<epc, ecall, eret, session>>
    /\ UNCHANGED <<limiterVars, storageVars, searchVars, chunkVars, clientVars>>

\* lines 131-138 for batch_embeddings[j]: the vector is stored by index and,
\* with use_cache, in the cache under the key of uncached_texts[j]
ThreadStore(t) ==
    /\ wpc[t] = "store"
    /\ LET c == wcall[t]
           embedding == At(c.batch_embeddings, c.j)
           original_index == At(Slice(c.uncached_indices, c.i, c.batch_size), c.j)
           cache_key == GetCacheKey(At(c.uncached_texts, c.j))
           place == AfterStore(c)
       IN /\ IF c.use_cache
             THEN /\ embedding_cache' = [embedding_cache EXCEPT ![cache_key] = <<embedding>>]
                  /\ wlog' = [wlog EXCEPT !.written = @ \cup {<<cache_key, embedding>>}]
             ELSE UNCHANGED <<embedding_cache, wlog>>
          /\ CacheCallGoesOrReturns(t, place,
                 [c EXCEPT !.embeddings_by_index = @ \cup {<<original_index, embedding>>},
                           !.j = IF place = "store" THEN @ + 1 ELSE 0,
                           !.i = IF place = "get_embeddings" THEN @ + c.batch_size ELSE @,
                           !.batch_embeddings = IF place = "store" THEN @ ELSE <<>>])
    /\ UNCHANGED <<cache_hits, cache_misses>>
    /\ UNCHANGED <<epc, ecall, eret, session>>
    /\ UNCHANGED <<limiterVars, storageVars, searchVars, chunkVars, clientVars>>

\* clear_embedding_cache() is called, and line 217: _embedding_cache = {}
ThreadClearCache(t) ==
    /\ wpc[t] = "idle"
    /\ wlog.calls < MaxCacheCalls
    /\ embedding_cache' = [h \in CacheKeys |-> NoneV]
    /\ wlog' = [NoCacheLog EXCEPT !.calls = wlog.calls + 1, !.key_errors = wlog.key_errors]
    /\ CacheCallGoes(t, "clear_hits", [IdleCacheCall EXCEPT !.op = "clear_embedding_cache"])
    /\ UNCHANGED <<cache_hits, cache_misses>>
    /\ UNCHANGED <<epc, ecall, eret, session>>
    /\ UNCHANGED <<limiterVars, storageVars, searchVars, chunkVars, clientVars>>

\* line 218: _cache_hits = 0
ThreadClearHits(t) ==
    /\ wpc[t] = "clear_hits"
    /\ cache_hits' = 0
    /\ CacheCallGoes(t, "clear_misses", wcall[t])
    /\ UNCHANGED <<embedding_cache, cache_misses, wlog>>
    /\ UNCHANGED <<epc, ecall, eret, session>>
    /\ UNCHANGED <<limiterVars, storageVars, searchVars, chunkVars, clientVars>>

\* line 219: _cache_misses = 0, and the call returns
ThreadClearMisses(t) ==
    /\ wpc[t] = "clear_misses"
    /\ cache_misses' = 0
    /\ CacheCallEnds(t)
    /\ UNCHANGED <<embedding_cache, cache_hits, wlog>>
    /\ UNCHANGED <<epc, ecall, eret, session>>
    /\ UNCHANGED <<limiterVars, storageVars, searchVars, chunkVars, clientVars>>

\* no thread is in the module
InitCacheThreads ==
    /\ wpc = [t \in Threads |-> "idle"]
    /\ wcall = [t \in Threads |-> IdleCacheCall]
    /\ wlog = NoCacheLog

(***************************************************************************)
(* SearchService.search (app/services/search_service.py).  The store is    *)
(* read only: SearchCorpus is the content of document_chunks row by row,   *)
(* as search needs the chunk_index and the metadata of the single rows.    *)
(* One action per call to the provider or to the store; the list work in   *)
(* between is computed by operators.                                       *)
(***************************************************************************)
\* the rows of document_chunks: d1 has three chunks, d2 has two
ChunkRow(d, j, metadata) == [document_id |-> d, chunk_index |-> j, metadata |-> metadata]
SearchCorpus ==
    {ChunkRow("d1", 0, {<<"k", 1>>}), ChunkRow("d1", 1, {<<"k", 2>>}),
     ChunkRow("d1", 2, {<<"k", 1>>}),
     ChunkRow("d2", 0, {<<"k", 1>>}), ChunkRow("d2", 1, {})}

\* the similarity values of the rows the store answers with; a row may also
\* carry no similarity at all
Sims == {-1, 0, 1}

\* a row of the answer of match_document_chunks
Matches == {[document_id |-> r.document_id, chunk_index |-> r.chunk_index,
             metadata |-> r.metadata, similarity |-> s] :
               r \in SearchCorpus, s \in Option(Sims)}

\* x.get("similarity", 0)
GetSimilarity(x) == IF x.similarity = NoneV THEN 0 ELSE x.similarity[1]

\* the answers of the store to a request for match_count rows: distinct
\* chunks, ranked by similarity, highest first
StoreAnswers(match_count) ==
    UNION {{a \in [1 .. n -> Matches] :
              /\ \A i \in 1 .. n, j \in 1 .. n :
                   (i # j) => (a[i].document_id # a[j].document_id
                               \/ a[i].chunk_index # a[j].chunk_index)
              /\ \A i \in 1 .. n - 1 : GetSimilarity(a[i]) >= GetSimilarity(a[i + 1])} :
           n \in 0 .. Min(match_count, MaxMatches)}

\* a result dict as search returns it; the keys is_context, context_for and
\* context_position exist only on context chunks
Primary(m) ==
    [document_id |-> m.document_id, chunk_index |-> m.chunk_index,
     metadata |-> m.metadata, similarity |-> m.similarity,
     is_context |-> FALSE, context_for |-> NoneV, context_position |-> "none"]

\* does the metadata of a result match all filter criteria (lines 110-114)
MatchesFilter(metadata, metadata_filter) ==
    \A pair \in metadata_filter : pair \in metadata

\* _filter_by_metadata
FilterByMetadata(results, metadata_filter) ==
    SelectSeq(results, LAMBDA r : MatchesFilter(r.metadata, metadata_filter))

\* mutant of Head_: the list is not cut
HeadAll_(list, n) == list

\* list[:n]
Head_(list, n) == SubSeq(list, 1, Min(n, Len(list)))

\* the keys of results_by_doc in insertion order (lines 140-151)
RECURSIVE DocOrder(_)
DocOrder(results) ==
    IF results = <<>> THEN <<>>
    ELSE LET before == DocOrder(SubSeq(results, 1, Len(results) - 1))
             d == results[Len(results)].document_id
         IN IF Contains(before, d) THEN before ELSE Append(before, d)

\* results_by_doc[d]: the matches of document d in insertion order
MatchesOf(results, d) == SelectSeq(results, LAMBDA r : r.document_id = d)

\* lines 168-186 for the match at chunk_index k of a document whose chunk_map
\* has the keys chunk_indexes and whose matches have the keys primaries: the
\* neighbours that are tagged and appended, with the tag written on each
Neighbours(k, chunk_indexes, primaries, position) ==
    LET candidates == [i \in 1 .. CONTEXT_WINDOW_SIZE |->
                          IF position = "before" THEN k - i ELSE k + i]
        kept == SelectSeq(candidates,
                    LAMBDA j : j \in chunk_indexes /\ j \notin primaries)
    IN [n \in 1 .. Len(kept) |->
          [kind |-> "chunk", chunk_index |-> kept[n], result |-> NoneV,
           context_for |-> k, context_position |-> position]]

\* lines 164-186 for the first n matches of one document: what is appended
\* to context_results, in order
RECURSIVE Appended(_, _, _)
Appended(group, n, chunk_indexes) ==
    IF n = 0 THEN <<>>
    ELSE LET primaries == {group[i].chunk_index : i \in 1 .. Len(group)}
             k == group[n].chunk_index
         IN Appended(group, n - 1, chunk_indexes)
            \o <<[kind |-> "result", chunk_index |-> k, result |-> <<group[n]>>,
                  context_for |-> 0, context_position |-> "none"]>>
            \o Neighbours(k, chunk_indexes, primaries, "before")
            \o Neighbours(k, chunk_indexes, primaries, "after")

\* a chunk of chunk_map is one dict however often it is appended: every
\* appended reference shows the tag that was written on it last
LastTag(entries, j) ==
    entries[CHOOSE n \in 1 .. Len(entries) :
               /\ entries[n].kind = "chunk" /\ entries[n].chunk_index = j
               /\ \A m \in n + 1 .. Len(entries) :
                    ~(entries[m].kind = "chunk" /\ entries[m].chunk_index = j)]

\* the part of context_results one document contributes (lines 156-186),
\* doc_chunks being the answer of get_document_chunks
DocumentContext(group, doc_chunks) ==
    LET chunk_indexes == {c.chunk_index : c \in doc_chunks}
        entries == Appended(group, Len(group), chunk_indexes)
    IN [n \in 1 .. Len(entries) |->
          IF entries[n].kind = "result" THEN entries[n].result[1]
          ELSE LET row == CHOOSE c \in doc_chunks : c.chunk_index = entries[n].chunk_index
                   tag == LastTag(entries, entries[n].chunk_index)
               IN [document_id |-> row.document_id, chunk_index |-> row.chunk_index,
                   metadata |-> row.metadata, similarity |-> NoneV,
                   is_context |-> TRUE, context_for |-> <<tag.context_for>>,
                   context_position |-> tag.context_position]]

\* the sort key of line 190
SortKey(x) == IF ~x.is_context THEN GetSimilarity(x) ELSE 0

\* list.sort(key, reverse=True): highest key first, elements of equal key in
\* their order in the list
RECURSIVE SortDescending(_)
SortDescending(list) ==
    IF list = <<>> THEN <<>>
    ELSE LET sorted == SortDescending(SubSeq(list, 1, Len(list) - 1))
             x == list[Len(list)]
             pos == Cardinality({i \in 1 .. Len(sorted) : SortKey(sorted[i]) >= SortKey(x)})
         IN SubSeq(sorted, 1, pos) \o <<x>> \o SubSeq(sorted, pos + 1, Len(sorted))

IdleSearch == [limit |-> 0, include_context |-> FALSE, metadata_filter |-> NoneV,
               store_answer |-> <<>>, matches |-> <<>>, results |-> <<>>,
               docs |-> <<>>, context_results |-> <<>>, unsorted |-> <<>>,
               failures |-> {}, match_count |-> 0]
NoSearchRet == [outcome |-> "none", value |-> <<>>, call |-> IdleSearch, enhanced |-> {}]

\* search ends; its locals are kept with the result
SearchFinished(c, outcome, value, enhanced) ==
    /\ spc' = "idle"
    /\ scall' = IdleSearch
    /\ sret' = [outcome |-> outcome, value |-> value, call |-> c, enhanced |-> enhanced]

\* search(query, limit, similarity_threshold, include_context,
\* metadata_filter): entry, lines 53-56; a limit of None or 0 is DEFAULT_LIMIT
Search(W) ==
    /\ spc = "idle"
    /\ \E limit \in W.limits, include_context \in BOOLEAN,
          metadata_filter \in W.filters :
         scall' = [IdleSearch EXCEPT
                     !.limit = IF limit = 0 THEN DEFAULT_LIMIT ELSE limit,
                     !.include_context = include_context,
                     !.metadata_filter = metadata_filter]
    /\ spc' = "create_embedding"
    /\ sret' = NoSearchRet
    /\ UNCHANGED <<storageVars, limiterVars, embedVars, clientVars, chunkVars, cacheVars>>

\* line 59, DocumentService.create_embedding (document_service.py:59-67): one
\* request to the provider, whose error is re-raised and, in search, caught
\* by line 85 and turned into []
CreateEmbedding ==
    /\ spc = "create_embedding"
    /\ last_request' = [sender |-> "create_embedding", checked |-> FALSE]
    /\ \E answer \in ProviderAnswers :
         IF answer = "ok"
         THEN /\ spc' = "search_documents"
              /\ UNCHANGED <<scall, sret>>
         ELSE SearchFinished([scall EXCEPT !.failures = @ \cup {"provider"}],
                             "returned", <<>>, {})
    /\ UNCHANGED <<gpc, gcall, gret, requested>>
    /\ UNCHANGED <<storageVars, limiterVars, embedVars, chunkVars, cacheVars>>

\* the limit argument of search_documents (line 64)
MatchCount(c) == IF c.include_context THEN c.limit * 2 ELSE c.limit

\* lines 62-77: DocumentStorage.search_documents, whose failure it turns
\* into [] itself (document_storage.py:477-490), then the metadata filter and
\* either the grouping of _add_context (lines 136-151) or the truncation
SearchDocuments ==
    /\ spc = "search_documents"
    /\ \E ok \in BOOLEAN, answer \in StoreAnswers(MatchCount(scall)) :
         LET rows == IF ok THEN answer ELSE <<>>
             found == [n \in 1 .. Len(rows) |-> Primary(rows[n])]
             results == IF scall.metadata_filter # NoneV
                           /\ scall.metadata_filter[1] # {} /\ found # <<>>
                        THEN FilterByMetadata(found, scall.metadata_filter[1])
                        ELSE found
             c == [scall EXCEPT !.store_answer = rows, !.matches = results,
                     !.match_count = MatchCount(scall),
                     !.failures = IF ok THEN @ ELSE @ \cup {"search_documents"}]
         IN
         /\ (~ok) => answer = <<>>
         /\ IF scall.include_context /\ results # <<>>
            THEN /\ scall' = [c EXCEPT !.docs = DocOrder(results)]
                 /\ spc' = "get_document_chunks"
            ELSE /\ scall' = [c EXCEPT !.results = Head_(results, scall.limit)]
                 /\ spc' = "enhance"
    /\ UNCHANGED sret
    /\ UNCHANGED <<storageVars, limiterVars, embedVars, clientVars, chunkVars, cacheVars>>

\* the rows get_document_chunks(d) selects
ChunksOf(d) == {r \in SearchCorpus : r.document_id = d}

\* lines 156-195, one document of results_by_doc at a time:
\* get_document_chunks, whose failure is turned into []
\* (document_storage.py:297-305), and the context of its matches; after the
\* last document the sort and the truncation
GetDocumentChunks ==
    /\ spc = "get_document_chunks"
    /\ LET d == Head(scall.docs) IN
       \E ok \in BOOLEAN :
         LET doc_chunks == IF ok THEN ChunksOf(d) ELSE {}
             context_results == scall.context_results
                  \o DocumentContext(MatchesOf(scall.matches, d), doc_chunks)
             c == [scall EXCEPT !.docs = Tail(@), !.context_results = context_results,
                     !.failures = IF ok THEN @ ELSE @ \cup {"get_document_chunks"}]
         IN
         IF Tail(scall.docs) # <<>>
         THEN /\ scall' = c
              /\ UNCHANGED spc
         ELSE /\ scall' = [c EXCEPT !.context_results = <<>>,
                             !.unsorted = context_results,
                             !.results = Head_(SortDescending(context_results),
                                               scall.limit)]
              /\ spc' = "enhance"
    /\ UNCHANGED sret
    /\ UNCHANGED <<storageVars, limiterVars, embedVars, clientVars, chunkVars, cacheVars>>

\* _enhance_results (lines 207-231): get_document_by_id for every document
\* of the results; found are the documents it answered with, and a document
\* it did not find or failed to read leaves its results as they are
Enhance ==
    /\ spc = "enhance"
    /\ \E found \in SUBSET {scall.results[n].document_id : n \in 1 .. Len(scall.results)} :
         SearchFinished(scall, "returned", scall.results, found)
    /\ UNCHANGED <<storageVars, limiterVars, embedVars, clientVars, chunkVars, cacheVars>>

InitSearch ==
    /\ spc = "idle"
    /\ scall = IdleSearch
    /\ sret = NoSearchRet

(***************************************************************************)
(* chunk_text (app/utils/text_chunker.py).  A text is a sequence of        *)
(* characters, a chunk likewise.  The loops over splits and items are      *)
(* computed by operators; the while loop of chunk_by_character is an       *)
(* action per iteration.                                                   *)
(***************************************************************************)
\* the characters of the texts: a letter, a sentence end, the two kinds of
\* whitespace and the header sign of markdown
Chars == {"a", ".", " ", "\n", "#"}
Whitespace == {" ", "\n"}
SentenceEnds == {".", "!", "?"}
ChunkTexts == UNION {[1 .. n -> Chars] : n \in 0 .. MaxTextLen}

Least(S) == CHOOSE x \in S : \A y \in S : x <= y
Greatest(S) == CHOOSE x \in S : \A y \in S : x >= y

\* text[i:] for a position i counted from 1
From(text, i) == SubSeq(text, i, Len(text))

\* text.split(separator)
RECURSIVE Split(_, _)
Split(text, separator) ==
    LET n == Len(separator)
        found == {i \in 1 .. Len(text) - n + 1 : SubSeq(text, i, i + n - 1) = separator}
    IN IF found = {} THEN <<text>>
       ELSE LET i == Least(found)
            IN <<SubSeq(text, 1, i - 1)>> \o Split(From(text, i + n), separator)

\* separator.join(items)
RECURSIVE Join(_, _)
Join(items, separator) ==
    IF items = <<>> THEN <<>>
    ELSE IF Len(items) = 1 THEN items[1]
         ELSE Join(SubSeq(items, 1, Len(items) - 1), separator)
              \o separator \o items[Len(items)]

\* the inner loop of lines 121-127 and 273-279: working backwards through
\* current_chunk, the items kept while their sizes (each with the separator)
\* stay within chunk_overlap
RECURSIVE OverlapItems(_, _, _)
OverlapItems(current_chunk, chunk_overlap, n) ==
    IF current_chunk = <<>> THEN <<>>
    ELSE LET item == current_chunk[Len(current_chunk)]
             item_size == Len(item) + n
         IN IF item_size <= chunk_overlap
            THEN OverlapItems(SubSeq(current_chunk, 1, Len(current_chunk) - 1),
                              chunk_overlap - item_size, n) \o <<item>>
            ELSE <<>>

\* overlap_size of the items kept
RECURSIVE OverlapSize(_, _)
OverlapSize(items, n) ==
    IF items = <<>> THEN 0
    ELSE Len(items[1]) + n + OverlapSize(Tail(items), n)

NoChunks == [chunks |-> <<>>, current_chunk |-> <<>>, current_size |-> 0]

\* one pass of the for loop of chunk_by_separator (lines 107-134) and of
\* chunk_by_items (lines 261-286), which differ in the size of the item only
LoopPass(s, item, item_size, chunk_size, chunk_overlap, separator) ==
    IF s.current_size + item_size > chunk_size /\ s.current_chunk # <<>>
    THEN LET kept == OverlapItems(s.current_chunk, chunk_overlap, Len(separator))
         IN [chunks |-> Append(s.chunks, Join(s.current_chunk, separator)),
             current_chunk |-> Append(kept, item),
             current_size |-> OverlapSize(kept, Len(separator)) + item_size]
    ELSE [chunks |-> s.chunks,
          current_chunk |-> Append(s.current_chunk, item),
          current_size |-> s.current_size + item_size]

\* mutant of LastChunk: the items left in current_chunk are not returned
LastChunkDropped(s, separator) == s.chunks

\* the last chunk (lines 137-138 and 289-290)
LastChunk(s, separator) ==
    IF s.current_chunk # <<>> THEN Append(s.chunks, Join(s.current_chunk, separator))
    ELSE s.chunks

\* the for loop of chunk_by_separator over the first k splits
RECURSIVE SeparatorLoop(_, _, _, _, _)
SeparatorLoop(splits, k, chunk_size, chunk_overlap, separator) ==
    IF k = 0 THEN NoChunks
    ELSE LoopPass(SeparatorLoop(splits, k - 1, chunk_size, chunk_overlap, separator),
                  splits[k], Len(splits[k]) + Len(separator),
                  chunk_size, chunk_overlap, separator)

\* chunk_by_separator for a text that contains the separator (lines 103-140)
ChunkBySeparator(text, chunk_size, chunk_overlap, separator) ==
    LET splits == Split(text, separator)
    IN LastChunk(SeparatorLoop(splits, Len(splits), chunk_size, chunk_overlap, separator),
                 separator)

\* the for loop of chunk_by_items over the first k items
RECURSIVE ItemsLoop(_, _, _, _, _)
ItemsLoop(items, k, chunk_size, chunk_overlap, join_str) ==
    IF k = 0 THEN NoChunks
    ELSE LET s == ItemsLoop(items, k - 1, chunk_size, chunk_overlap, join_str)
         IN LoopPass(s, items[k],
                     IF s.current_chunk # <<>> THEN Len(items[k]) + Len(join_str)
                     ELSE Len(items[k]),
                     chunk_size, chunk_overlap, join_str)

\* chunk_by_items
ChunkByItems(items, chunk_size, chunk_overlap, join_str) ==
    LastChunk(ItemsLoop(items, Len(items), chunk_size, chunk_overlap, join_str), join_str)

\* the length of the run of characters of set that text begins with
RECURSIVE RunLength(_, _)
RunLength(text, set) ==
    IF text = <<>> \/ Head(text) \notin set THEN 0
    ELSE 1 + RunLength(Tail(text), set)

\* re.split(r'(?<=[.!?])\s+', text): the text is cut at every run of
\* whitespace that follows a sentence end, and the run is dropped
RECURSIVE SplitSentences(_, _)
SplitSentences(text, p) ==
    LET found == {i \in p .. Len(text) :
                    i > 1 /\ text[i - 1] \in SentenceEnds /\ text[i] \in Whitespace}
    IN IF found = {} THEN <<From(text, p)>>
       ELSE LET i == Least(found)
                run == RunLength(From(text, i), Whitespace)
            IN <<SubSeq(text, p, i - 1)>> \o SplitSentences(text, i + run)

\* chunk_by_sentence
ChunkBySentence(text, chunk_size, chunk_overlap) ==
    ChunkByItems(SplitSentences(text, 1), chunk_size, chunk_overlap, <<" ">>)

\* the length of the match of r'#{1,6}\s+[^\n]+\n' at the beginning of
\* text, 0 when there is none: one to six header signs, then whitespace of
\* which the longest run is taken that leaves a title of at least one
\* character before a line end
HeaderLength(text) ==
    LET signs == RunLength(text, {"#"})
        space == RunLength(From(text, signs + 1), Whitespace)
        titled == {s \in 1 .. space :
                     /\ signs + s + 1 <= Len(text)
                     /\ text[signs + s + 1] # "\n"
                     /\ \E e \in signs + s + 2 .. Len(text) : text[e] = "\n"}
    IN IF signs \notin 1 .. 6 \/ titled = {} THEN 0
       ELSE LET s == Greatest(titled)
            IN Least({e \in signs + s + 2 .. Len(text) : text[e] = "\n"})

\* re.split(header_pattern, text): the pieces between the headers and, the
\* pattern being one group, the headers themselves
RECURSIVE SplitHeaders(_)
SplitHeaders(text) ==
    LET found == {i \in 1 .. Len(text) : HeaderLength(From(text, i)) > 0}
    IN IF found = {} THEN <<text>>
       ELSE LET i == Least(found)
                n == HeaderLength(From(text, i))
            IN <<SubSeq(text, 1, i - 1), SubSeq(text, i, i + n - 1)>>
               \o SplitHeaders(From(text, i + n))

\* the while loop of lines 228-234 from index i (counted from 1): a header
\* is grouped with the piece that follows it
RECURSIVE GroupSections(_, _)
GroupSections(sections, i) ==
    IF i > Len(sections) THEN <<>>
    ELSE IF i + 1 <= Len(sections) /\ HeaderLength(sections[i]) > 0
         THEN <<sections[i] \o sections[i + 1]>> \o GroupSections(sections, i + 2)
         ELSE <<sections[i]>> \o GroupSections(sections, i + 1)

\* chunk_markdown
ChunkMarkdown(text, chunk_size, chunk_overlap) ==
    ChunkByItems(GroupSections(SplitHeaders(text), 1), chunk_size, chunk_overlap, <<"\n">>)

\* the strategy chunk_text applies (lines 55-75): simple becomes markdown or
\* paragraph by the content type, semantic and unknown strategies are simple
Dispatch(strategy, content_type) ==
    IF strategy = "simple"
    THEN IF content_type \in {"markdown", "md"} THEN "markdown"
         ELSE IF content_type = "html" THEN "paragraph"
         ELSE "simple"
    ELSE IF strategy \in {"sentence", "paragraph", "markdown"} THEN strategy
         ELSE "simple"

\* the separator chunk_by_separator is called with (lines 63, 67, 72, 75)
SeparatorOf(strategy) == IF strategy = "paragraph" THEN <<"\n", "\n">> ELSE <<"\n">>

\* the units a strategy cuts the text into: lines, paragraphs, sentences or
\* headed sections
UnitsOf(text, strategy) ==
    CASE strategy = "sentence" -> SplitSentences(text, 1)
      [] strategy = "markdown" -> GroupSections(SplitHeaders(text), 1)
      [] OTHER -> Split(text, SeparatorOf(strategy))

IdleChunk == [text |-> <<>>, chunk_size |-> 1, chunk_overlap |-> 0,
              strategy |-> "simple", content_type |-> "text",
              applied |-> "none", units |-> <<>>, start |-> 0, chunks |-> <<>>,
              by_character |-> FALSE]

\* chunk_text and the function it calls return chunks
ChunkReturn(c, chunks) ==
    /\ kpc' = "done"
    /\ kcall' = [c EXCEPT !.chunks = chunks]

\* the caller passes the arguments of chunk_text (lines 29-35)
CallChunkText(W) ==
    /\ kpc = "idle"
    /\ kpc' = "chunk_text"
    /\ \E text \in W.texts, chunk_size \in W.chunk_sizes,
          chunk_overlap \in W.chunk_overlaps, mode \in W.modes :
         kcall' = [IdleChunk EXCEPT !.text = text, !.chunk_size = chunk_size,
                                    !.chunk_overlap = chunk_overlap,
                                    !.strategy = mode[1], !.content_type = mode[2]]
    /\ UNCHANGED <<storageVars, limiterVars, embedVars, clientVars, searchVars, cacheVars>>

\* chunk_text up to the while loop of chunk_by_character: the empty text
\* (lines 51-52), the strategy, and either the whole of chunk_by_sentence,
\* chunk_markdown or chunk_by_separator, or the entry of chunk_by_character
\* (lines 100-101, 159-163)
ChunkText ==
    /\ kpc = "chunk_text"
    /\ LET text == kcall.text
           applied == Dispatch(kcall.strategy, kcall.content_type)
           c == [kcall EXCEPT !.applied = applied, !.units = UnitsOf(text, applied)]
       IN IF text = <<>>
          THEN ChunkReturn(kcall, <<>>)
          ELSE CASE applied = "sentence" ->
                      ChunkReturn(c, ChunkBySentence(text, kcall.chunk_size, kcall.chunk_overlap))
                 [] applied = "markdown" ->
                      ChunkReturn(c, ChunkMarkdown(text, kcall.chunk_size, kcall.chunk_overlap))
                 [] OTHER ->
                      IF Len(c.units) # 1
                      THEN ChunkReturn(c, ChunkBySeparator(text, kcall.chunk_size,
                                            kcall.chunk_overlap, SeparatorOf(applied)))
                      ELSE IF Len(text) <= kcall.chunk_size
                           THEN ChunkReturn([c EXCEPT !.by_character = TRUE], <<text>>)
                           ELSE /\ kpc' = "chunk_by_character"
                                /\ kcall' = [c EXCEPT !.by_character = TRUE, !.start = 0]
    /\ UNCHANGED <<storageVars, limiterVars, embedVars, clientVars, searchVars, cacheVars>>

\* mutant of ChunkEnd: the chunk ends where it starts
ChunkEndAtStart(start, chunk_size, length) == start

\* the end of the chunk an iteration takes (line 167)
ChunkEnd(start, chunk_size, length) == Min(start + chunk_size, length)

\* one iteration of the while loop of chunk_by_character (lines 165-177)
\* and the test of the loop that follows it
CharacterIteration ==
    /\ kpc = "chunk_by_character"
    /\ LET text == kcall.text
           end == ChunkEnd(kcall.start, kcall.chunk_size, Len(text))
           start == IF kcall.start > 0 THEN Max0(kcall.start - kcall.chunk_overlap)
                    ELSE kcall.start
           chunks == Append(kcall.chunks, SubSeq(text, start + 1, end))
       IN IF end < Len(text)
          THEN /\ kcall' = [kcall EXCEPT !.chunks = chunks, !.start = end]
               /\ UNCHANGED kpc
          ELSE ChunkReturn([kcall EXCEPT !.start = end], chunks)
    /\ UNCHANGED <<storageVars, limiterVars, embedVars, clientVars, searchVars, cacheVars>>

\* no call of chunk_text
InitChunkIdle ==
    /\ kpc = "idle"
    /\ kcall = IdleChunk

(***************************************************************************)
(* SpecEmbed: one caller of generate_embeddings and clear_embedding_cache. *)
(***************************************************************************)
EmbedLoad == [texts |-> TextLists, batch_sizes |-> {1, 2, DEFAULT_BATCH_SIZE}]

\* the limiter admits MaxRequestsArg requests a tick
InitEmbedSpec ==
    /\ InitStorage
    /\ InitLimiter
    /\ max_requests = MaxRequestsArg
    /\ window_seconds = 1
    /\ InitEmbed
    /\ InitClient
    /\ InitSearch /\ InitChunkIdle /\ InitCacheThreads

NextEmbed ==
    \/ GenerateEmbeddings(EmbedLoad)
    \/ EmbedBatch
    \/ CheckLimit
    \/ Create
    \/ BatchDone
    \/ ClearEmbeddingCache
    \/ Tick

SpecEmbed == InitEmbedSpec /\ [][NextEmbed]_vars

(***************************************************************************)
(* SpecRetry: one caller of get_embeddings, with lists of at most two      *)
(* texts and a list that takes two provider requests.                      *)
(***************************************************************************)
LongTexts == [k \in 1 .. ApiBatchSize + 1 |-> IF k % 2 = 1 THEN "a" ELSE "b"]
RetryLoad == [texts |-> {<<>>, <<"a">>, <<"b", "a">>, LongTexts}]

InitRetry == InitStorage /\ InitLimiter /\ InitEmbed /\ InitClient /\ InitSearch /\ InitChunkIdle /\ InitCacheThreads

NextRetry ==
    \/ GetEmbeddings(RetryLoad)
    \/ CheckLimit
    \/ Create
    \/ Tick

SpecRetry == InitRetry /\ [][NextRetry]_vars

(***************************************************************************)
(* SpecSearch: one caller of search.                                       *)
(***************************************************************************)
SearchLoad == [limits |-> {0, 1, 3},
               filters |-> {NoneV, <<{}>>, <<{<<"k", 1>>}>>}]

NextSearch ==
    \/ Search(SearchLoad)
    \/ CreateEmbedding
    \/ SearchDocuments
    \/ GetDocumentChunks
    \/ Enhance

InitSearchSpec == InitStorage /\ InitLimiterIdle /\ InitEmbed /\ InitClient /\ InitSearch /\ InitChunkIdle /\ InitCacheThreads

SpecSearch == InitSearchSpec /\ [][NextSearch]_vars

InitLimiterSpec == InitStorage /\ InitLimiter /\ InitEmbed /\ InitClient /\ InitSearch /\ InitChunkIdle /\ InitCacheThreads

SpecLimiter == InitLimiterSpec /\ [][NextLimiter]_vars

(***************************************************************************)
(* SpecStore: one caller issuing DocumentStorage calls one after another.  *)
(***************************************************************************)
StoreLoad == [doc_ids |-> {"d1"}, titles |-> {"t1"}, contents |-> Contents,
              metadata |-> {NoneV},
              update_ops |-> {"update_document_with_chunks"}]

InitStore == InitStorage /\ InitLimiterIdle /\ InitEmbed /\ InitClient /\ InitSearch /\ InitChunkIdle /\ InitCacheThreads

NextStore ==
    \E p \in {"p1"} :
        \/ StoreDocument(p, StoreLoad)
        \/ StoreDocumentWithChunks(p, StoreLoad)
        \/ StoreDocumentChunks(p, StoreLoad)
        \/ InsertBatch(p)
        \/ Rollback(p)
        \/ DeleteDocument(p, StoreLoad)
        \/ DeleteDocumentChunks(p, StoreLoad)
        \/ DeleteChunks(p)
        \/ DeleteDocumentRow(p)
        \/ UpdateGet(p, StoreLoad)
        \/ UpdateWrite(p, StoreLoad)
        \/ GetChunks(p)

SpecStore == InitStore /\ [][NextStore]_vars

(***************************************************************************)
(* SpecConc: two callers whose store_document, update_document and         *)
(* delete_document calls on one document interleave statement by          *)
(* statement.                                                              *)
(***************************************************************************)
ConcLoad == [doc_ids |-> {"d1"}, titles |-> Titles, contents |-> {"c1"},
             metadata |-> {NoneV, <<{<<"k", 1>>}>>},
             update_ops |-> {"update_document"}]

NextConc ==
    \E p \in Procs :
        \/ StoreDocument(p, ConcLoad)
        \/ UpdateGet(p, ConcLoad)
        \/ UpdateWrite(p, ConcLoad)
        \/ DeleteDocument(p, ConcLoad)
        \/ DeleteChunks(p)
        \/ DeleteDocumentRow(p)

InitConc == InitStorage /\ InitLimiterIdle /\ InitEmbed /\ InitClient /\ InitSearch /\ InitChunkIdle /\ InitCacheThreads

SpecConc == InitConc /\ [][NextConc]_vars

(***************************************************************************)
(* SpecChunk: one call of chunk_text, for every text of up to MaxTextLen   *)
(* characters, every strategy and every chunk_size and chunk_overlap up to *)
(* MaxChunkSize.  SpecChunkFair adds that a call which can take a step     *)
(* takes it; its texts are made of letters and line ends, as the number of *)
(* iterations of a loop depends on the lengths of the units only.          *)
(***************************************************************************)
ChunkLoad == [texts |-> ChunkTexts,
              chunk_sizes |-> 1 .. MaxChunkSize,
              chunk_overlaps |-> 0 .. MaxChunkSize,
              modes |-> {<<"simple", "text">>, <<"simple", "markdown">>,
                         <<"simple", "html">>, <<"sentence", "text">>,
                         <<"paragraph", "text">>, <<"markdown", "text">>,
                         <<"semantic", "text">>}]

InitChunkSpec ==
    InitStorage /\ InitLimiterIdle /\ InitEmbed /\ InitClient /\ InitSearch /\ InitChunkIdle /\ InitCacheThreads

NextChunk ==
    \/ CallChunkText(ChunkLoad)
    \/ ChunkText
    \/ CharacterIteration

SpecChunk == InitChunkSpec /\ [][NextChunk]_vars

\* the calls of the fair specification: the texts of one line, which the
\* strategy "simple" hands to the while loop of chunk_by_character
FairLoad == [ChunkLoad EXCEPT
               !.texts = {t \in ChunkTexts : \A i \in 1 .. Len(t) : t[i] = "a"}]

NextChunkFair ==
    \/ CallChunkText(FairLoad)
    \/ ChunkText
    \/ CharacterIteration

SpecChunkFair == InitChunkSpec /\ [][NextChunkFair]_vars /\ WF_vars(NextChunkFair)

(***************************************************************************)
(* SpecCache: two threads whose generate_embeddings and                    *)
(* clear_embedding_cache calls interleave statement by statement.          *)
(***************************************************************************)
CacheLoad == [texts |-> TextLists, batch_sizes |-> {1, DEFAULT_BATCH_SIZE}]

InitCache ==
    /\ InitStorage /\ InitLimiterIdle /\ InitEmbed /\ InitClient /\ InitSearch
    /\ InitChunkIdle /\ InitCacheThreads

NextCache ==
    \E t \in Threads :
        \/ ThreadGenerateEmbeddings(t, CacheLoad)
        \/ ThreadTest(t)
        \/ ThreadAppend(t)
        \/ ThreadLoadCounter(t)
        \/ ThreadStoreCounter(t)
        \/ ThreadGetEmbeddings(t)
        \/ ThreadStore(t)
        \/ ThreadClearCache(t)
        \/ ThreadClearHits(t)
        \/ ThreadClearMisses(t)

SpecCache == InitCache /\ [][NextCache]_vars

(***************************************************************************)
(* Claims on DocumentStorage                                               *)
(***************************************************************************)

\* store_document_with_chunks has just raised after its document insert
\* succeeded and store_document_chunks failed
ChunkFailureRaised ==
    /\ ret.op = "store_document_with_chunks"
    /\ ret.outcome = "raised"
    /\ ret.rollback # "none"
    /\ pc[ret.proc] = "idle"

C2_NoOrphanChunks ==
    \A d \in DocIds :
        RowsOfDocument(document_chunks, d) > 0 => RowsWithId(documents, d) # {}

\* C3: a document created at version 1 has version 1 + n after n
\* update_document calls on it returned successfully, whatever their
\* interleaving.
C3_VersionCountsUpdates ==
    \A r \in documents : r.version = 1 + nUpdates[r.id]

(***************************************************************************)
(* Claims on RateLimiter                                                   *)
(***************************************************************************)

\* the check_rate_limit calls on key before the j-th that were admitted less
\* than window_seconds before the j-th
AdmittedInWindowOf(key, j) ==
    {i \in 1 .. j - 1 :
        calls[key][i][2] /\ calls[key][j][1] - calls[key][i][1] < window_seconds}

\* the first max_requests + 1 calls on key fell into a span shorter than the window
FirstCallsInOneSpan(key) ==
    /\ Len(calls[key]) > max_requests
    /\ calls[key][max_requests + 1][1] - calls[key][1][1] < window_seconds

\* C4: on any key, each of the first max_requests check_rate_limit calls made
\* within a span shorter than window_seconds returns True and call number
\* max_requests + 1 in that span returns False; a call made once window_seconds
\* have elapsed since the earliest admitted call returns True again, as does
\* every call that finds fewer than max_requests admitted calls younger than
\* the window.
C4_WindowBoundary ==
    \A key \in Keys :
        LET log == calls[key] IN
        /\ \A i \in 1 .. Len(log) :
             (i <= max_requests /\ log[i][1] - log[1][1] < window_seconds) => log[i][2]
        /\ FirstCallsInOneSpan(key) => ~log[max_requests + 1][2]
        /\ (/\ FirstCallsInOneSpan(key)
            /\ Len(log) > max_requests + 1
            /\ log[max_requests + 2][1] - log[1][1] >= window_seconds)
               => log[max_requests + 2][2]
        /\ \A j \in 1 .. Len(log) :
             Cardinality(AdmittedInWindowOf(key, j)) < max_requests => log[j][2]

\* max_requests calls admitted and one refused in one span, then a call
\* admitted after the window of the earliest one elapsed
C4_Witness ==
    \E key \in Keys :
        /\ FirstCallsInOneSpan(key)
        /\ ~calls[key][max_requests + 1][2]
        /\ Len(calls[key]) > max_requests + 1
        /\ calls[key][max_requests + 2][1] - calls[key][1][1] >= window_seconds
        /\ calls[key][max_requests + 2][2]

\* occurrences of x in a list
Occurrences(list, x) == Cardinality({i \in 1 .. Len(list) : list[i] = x})

\* C5: under any interleaving of threads calling check_rate_limit,
\* get_remaining_requests and get_retry_after, the calls admitted on a key
\* with timestamps inside any span [s, s + window_seconds) number at most
\* max_requests, and every admitted timestamp younger than the window is
\* still in self.requests[key].
C5_AdmissionsBounded ==
    \A key \in Keys :
        LET log == calls[key] IN
        /\ \A s \in 0 .. MaxTime :
             Cardinality({i \in 1 .. Len(log) :
                 log[i][2] /\ s <= log[i][1] /\ log[i][1] < s + window_seconds})
               <= max_requests
        /\ \A x \in 0 .. MaxTime :
             now - x < window_seconds =>
                 Cardinality({i \in 1 .. Len(log) : log[i][2] /\ log[i][1] = x})
                   <= Occurrences(requests[key], x)

\* a thread is in the middle of the prune of get_remaining_requests, holding
\* the lock, on a key whose window is full of timestamps admitted to callers,
\* after a further call on the key was refused
C5_Witness ==
    \E t \in Threads :
        /\ tpc[t] = "assign"
        /\ lock = t
        /\ tloc[t].op = "get_remaining_requests"
        /\ max_requests > 1
        /\ Len(tloc[t].filtered) = max_requests
        /\ \E i \in 1 .. Len(calls[tloc[t].key]) : ~calls[tloc[t].key][i][2]

(***************************************************************************)
(* Claims on generate_embeddings and the embedding cache                   *)
(***************************************************************************)

\* C6: whenever generate_embeddings(texts) returns, the list it returns is as
\* long as texts and its i-th element is the vector of texts[i], whatever
\* part of the texts was in the cache.
C6_OrderPreserved ==
    eret.outcome = "returned" =>
        /\ Len(eret.value) = Len(eret.texts)
        /\ \A k \in 1 .. Len(eret.texts) : eret.value[k] = Embedding[eret.texts[k]]

\* C7: after two generate_embeddings calls with use_cache=True that both
\* returned, the first of them made on an empty cache and neither list
\* holding a text twice, every text contained in both lists was sent to the
\* provider in exactly one request.
C7_OneRequestPerText ==
    (/\ epc = "idle"
     /\ session.calls = 2
     /\ session.cached_calls_only
     /\ ~session.duplicates) =>
        \A t \in Texts : session.lookups[t] = 2 => requested[t] = 1

\* C8: every entry of the embedding cache maps the cache key of a text to the
\* vector the provider computes for that text.
C8_CacheEntriesMatch ==
    \A t \in Texts :
        embedding_cache[GetCacheKey(t)] # NoneV =>
            embedding_cache[GetCacheKey(t)] = <<Embedding[t]>>

(***************************************************************************)
(* Claims on get_embeddings                                                *)
(***************************************************************************)

\* C9: a get_embeddings call whose provider request was answered with a
\* transient error raises to its caller only after STOP_AFTER_ATTEMPT
\* attempts.
C9_TransientRetried ==
    (gret.outcome = "raised" /\ gret.provider_error \in TransientErrors) =>
        gret.attempts = STOP_AFTER_ATTEMPT

\* a get_embeddings call has raised after the provider answered a request
\* with a non-transient error
FatalRaised == gret.outcome = "raised" /\ gret.provider_error \in FatalErrors

\* C10 as stated: a get_embeddings call whose provider request was answered
\* with a non-transient error has made exactly one provider request, in one
\* attempt and without backoff sleep.
C10_ExactlyOneRequest ==
    FatalRaised =>
        /\ gret.create_calls = 1
        /\ gret.attempts = 1
        /\ gret.backoff_sleeps = 0

\* C10, amended: a get_embeddings call whose provider request was answered
\* with a non-transient error raises OpenAIServiceError after one attempt and
\* no backoff sleep, and the failing request is the last it made: one request
\* per batch of ApiBatchSize texts up to the failing batch, so exactly one
\* when the call carries at most ApiBatchSize texts.
C10_FailedRequestNotRepeated ==
    FatalRaised =>
        /\ gret.error = "OpenAIServiceError"
        /\ gret.attempts = 1
        /\ gret.backoff_sleeps = 0
        /\ gret.create_calls = (gret.failed_at \div ApiBatchSize) + 1
        /\ Len(gret.texts) <= ApiBatchSize => gret.create_calls = 1

\* a call has raised on a non-transient answer to its second batch request
C10_Witness ==
    /\ FatalRaised
    /\ gret.create_calls = 2
    /\ gret.batch_sleeps = 1

\* C11: every embedding request sent to the provider, by get_embeddings on
\* the ingestion path and by create_embedding on the search path, follows a
\* check_rate_limit("embeddings") call of its own that returned True; and a
\* get_embeddings call whose check returned False raised
\* RateLimitExceededError after one attempt, without provider request and
\* without backoff sleep.
C11_EveryRequestChecked ==
    /\ last_request.sender # "none" => last_request.checked
    /\ gret.error = "RateLimitExceededError" =>
         /\ gret.outcome = "raised"
         /\ gret.create_calls = 0
         /\ gret.attempts = 1
         /\ gret.backoff_sleeps = 0

(***************************************************************************)
(* Further claims on DocumentStorage                                       *)
(***************************************************************************)

\* C12: store_document_chunks reaches its insert statement only with chunks,
\* embeddings and metadata lists of one length (a metadata_list of None
\* aside); with any other lengths it raises before it inserts a row.
C12_UnequalLengthsRejected ==
    \A p \in Procs :
        pc[p] = "insert_batch" =>
            /\ call[p].chunks = call[p].embeddings
            /\ call[p].metadata_list # -1 => call[p].metadata_list = call[p].chunks


\* delete_document(id), called with the default delete_chunks=True, has just
\* finished
DeleteDocumentFinished ==
    /\ ret.op = "delete_document"
    /\ ret.call.chunk_delete # "skipped"
    /\ pc[ret.proc] = "idle"

\* C13: delete_document(id) issues the chunk delete before the document
\* delete; whenever it returns True neither the document row nor any chunk row
\* with that document_id remains in the store, and when no document row was
\* deleted it returns False without raising.
C13_DeleteLeavesNothing ==
    /\ \A p \in Procs :
         (pc[p] = "delete_document" /\ call[p].chunk_delete # "skipped")
            => call[p].chunk_delete \in {"done", "failed"}
    /\ DeleteDocumentFinished =>
         /\ ret.outcome = "returned"
         /\ ret.value \in {"True", "False"}
         /\ ret.value = "True" =>
              /\ RowsWithId(documents, ret.doc_id) = {}
              /\ RowsOfDocument(document_chunks, ret.doc_id) = 0


\* update_document_with_chunks with replace_chunks=True has just finished
\* after its document update went through and new chunks were given
ReplaceFinished ==
    /\ ret.op = "update_document_with_chunks"
    /\ ret.call.replace_chunks
    /\ pc[ret.proc] = "idle"

\* document_chunks holds for document d exactly the n chunks of content, once
ExactlyChunks(table, d, content, n) ==
    \A k \in {x \in ChunkKeys : x[1] = d} :
        table[k] = IF k[2] = content /\ k[3][1] < n /\ k[3] = BatchRange(k[3][1], n)
                   THEN 1 ELSE 0

\* C14: after an update with new content and replace_chunks=True returns or
\* raises, the chunks stored for the document are either exactly the complete
\* new set or no chunks at all: never the old chunks, a mix of old and new
\* chunks, or only part of the new set.
C14_NewSetOrNothing ==
    ReplaceFinished =>
        \/ RowsOfDocument(document_chunks, ret.doc_id) = 0
        \/ ExactlyChunks(document_chunks, ret.doc_id, ret.call.content, ret.call.chunks)


\* C15: when store_document_chunks fails inside store_document_with_chunks
\* and the compensating delete_document fails as well, the call attempts the
\* delete exactly once, terminates, and raises to the caller an error that
\* reports both the chunk-store failure and the failed rollback.
C15_BothFailuresReported ==
    /\ \A p \in Procs : pc[p] = "rollback" => call[p].op = "store_document_with_chunks"
    /\ (ChunkFailureRaised /\ ret.rollback = "failed") =>
         ret.reports = {"store_document_chunks", "delete_document"}


(***************************************************************************)
(* Claims on SearchService                                                 *)
(***************************************************************************)

\* search has just returned a list to its caller
SearchReturned ==
    /\ spc = "idle"
    /\ sret.outcome = "returned"

\* C16: no failure of the embedding provider or of the storage backend
\* during SearchService.search is turned into a normal return value: a
\* search during which a request to the provider or to the store failed does
\* not return a list.
C16_FailuresReachCaller ==
    SearchReturned => sret.call.failures = {}


\* C17: every result returned by search with a metadata_filter, primary
\* match or context chunk, has metadata that contain every key of the filter
\* with the filter's value.
C17_ResultsMatchFilter ==
    (SearchReturned /\ sret.call.metadata_filter # NoneV) =>
        \A n \in 1 .. Len(sret.value) :
            MatchesFilter(sret.value[n].metadata, sret.call.metadata_filter[1])


\* C18: with include_context=True no result with is_context=True precedes a
\* primary match in the returned list, and the primary matches are in
\* non-increasing order of similarity, whatever the similarity values are
\* (zero, negative or missing).
C18_PrimariesFirst ==
    (SearchReturned /\ sret.call.include_context) =>
        \A i \in 1 .. Len(sret.value), j \in 1 .. Len(sret.value) :
            (i < j /\ ~sret.value[j].is_context) =>
                /\ ~sret.value[i].is_context
                /\ GetSimilarity(sret.value[i]) >= GetSimilarity(sret.value[j])


\* the place of the chunk of result x in the answer of the store
StorePlace(x) ==
    CHOOSE n \in 1 .. Len(sret.call.store_answer) :
        /\ sret.call.store_answer[n].document_id = x.document_id
        /\ sret.call.store_answer[n].chunk_index = x.chunk_index

\* C19: primary matches of equal similarity keep the relative order in which
\* the store returned them, with and without include_context, also when the
\* matches of several documents are interleaved in the store's answer.
C19_TiesKeepStoreOrder ==
    SearchReturned =>
        \A i \in 1 .. Len(sret.value), j \in 1 .. Len(sret.value) :
            (/\ i < j
             /\ ~sret.value[i].is_context
             /\ ~sret.value[j].is_context
             /\ GetSimilarity(sret.value[i]) = GetSimilarity(sret.value[j]))
                => StorePlace(sret.value[i]) < StorePlace(sret.value[j])


\* search with include_context=True has just returned, every call to the
\* store went through and the limit cut nothing off
ContextReturnedWhole ==
    /\ SearchReturned
    /\ sret.call.include_context
    /\ sret.call.failures = {}
    /\ sret.call.matches # <<>>
    /\ Len(sret.call.unsorted) <= sret.call.limit

\* is the chunk j of document d one of the primary matches
IsPrimaryMatch(d, j) ==
    \E n \in 1 .. Len(sret.call.matches) :
        /\ sret.call.matches[n].document_id = d
        /\ sret.call.matches[n].chunk_index = j

\* the returned list shows chunk j of document d as context of chunk k
ShownAsContext(d, j, k, position) ==
    \E n \in 1 .. Len(sret.value) :
        /\ sret.value[n].document_id = d
        /\ sret.value[n].chunk_index = j
        /\ sret.value[n].is_context
        /\ sret.value[n].context_for = <<k>>
        /\ sret.value[n].context_position = position

\* C20: with include_context=True and nothing truncated, for every primary
\* match at chunk index k each existing chunk k-1 and k+1 of the same
\* document that is not itself a primary match is in the result with
\* is_context=True, context_for=k and context_position "before" or "after";
\* no primary match is tagged is_context.
C20_NeighboursShown ==
    ContextReturnedWhole =>
        /\ \A n \in 1 .. Len(sret.call.matches) :
             LET d == sret.call.matches[n].document_id
                 k == sret.call.matches[n].chunk_index
             IN /\ (\E r \in ChunksOf(d) : r.chunk_index = k - 1)
                     => (IsPrimaryMatch(d, k - 1) \/ ShownAsContext(d, k - 1, k, "before"))
                /\ (\E r \in ChunksOf(d) : r.chunk_index = k + 1)
                     => (IsPrimaryMatch(d, k + 1) \/ ShownAsContext(d, k + 1, k, "after"))
        /\ \A n \in 1 .. Len(sret.value) :
             sret.value[n].is_context =>
                ~IsPrimaryMatch(sret.value[n].document_id, sret.value[n].chunk_index)


\* C25: search asks the store for 2 * limit candidates when include_context
\* is set and for limit candidates otherwise, and in both cases returns at
\* most limit results, for every positive limit and every store answer.
C25_LimitRespected ==
    /\ spc \in {"get_document_chunks", "enhance"} =>
         scall.match_count = IF scall.include_context THEN 2 * scall.limit
                             ELSE scall.limit
    /\ SearchReturned =>
         /\ Len(sret.value) <= sret.call.limit
         /\ "provider" \notin sret.call.failures =>
              sret.call.match_count = IF sret.call.include_context
                                      THEN 2 * sret.call.limit ELSE sret.call.limit

\* a search with include_context whose matches and context chunks were more
\* than limit and that returned limit results
C25_Witness ==
    /\ SearchReturned
    /\ sret.call.include_context
    /\ sret.call.match_count = 2 * sret.call.limit
    /\ Len(sret.call.unsorted) > sret.call.limit
    /\ Len(sret.value) = sret.call.limit


(***************************************************************************)
(* Further claims on the stored chunks and documents                       *)
(***************************************************************************)

\* number of rows of document d with chunk_index j, whatever their content
RowsAtIndex(table, d, j) ==
    SumCounts(table, {k \in ChunkKeys : k[1] = d /\ k[3][1] <= j /\ j <= k[3][2]})

\* C27: in every reachable state the chunks stored for one document have
\* pairwise distinct chunk_index values that form 0..n-1, after any sequence
\* of store and update calls with the replace flag set either way.
C27_ChunkIndexesDistinct ==
    \A d \in DocIds :
        /\ \A j \in {0, BATCH_SIZE} : RowsAtIndex(document_chunks, d, j) <= 1
        /\ RowsAtIndex(document_chunks, d, BATCH_SIZE) > 0
              => RowsAtIndex(document_chunks, d, 0) > 0


\* C28: no chunk (same document_id and chunk_index) occurs more than once in
\* the list returned by search with include_context=True, also when one chunk
\* is the neighbour of two different primary matches, and each context
\* chunk's context_for names a primary match adjacent to it.
C28_NoChunkTwice ==
    (SearchReturned /\ sret.call.include_context) =>
        /\ \A i \in 1 .. Len(sret.value), j \in 1 .. Len(sret.value) :
             (i # j) => \/ sret.value[i].document_id # sret.value[j].document_id
                        \/ sret.value[i].chunk_index # sret.value[j].chunk_index
        /\ \A n \in 1 .. Len(sret.value) :
             sret.value[n].is_context =>
                /\ sret.value[n].context_for # NoneV
                /\ IsPrimaryMatch(sret.value[n].document_id, sret.value[n].context_for[1])
                /\ sret.value[n].context_for[1] - sret.value[n].chunk_index
                      \in {-CONTEXT_WINDOW_SIZE, CONTEXT_WINDOW_SIZE}


\* the step in which update_document, called with title, content and
\* metadata all None, returns
UpdateNothingReturns ==
    \E p \in Procs :
        /\ pc[p] = "update"
        /\ pc'[p] = "idle"
        /\ ret'.op = "update_document"
        /\ ret'.outcome = "returned"
        /\ ret'.call.no_changes

\* C29: update_document called for an existing document with title, content
\* and metadata all None issues no write to the store and returns the
\* existing document with its version unchanged; an update writes only the
\* title, content, metadata and version of the addressed document.
C29_NothingToUpdate ==
    [][/\ UpdateNothingReturns => (documents' = documents /\ nUpdates' = nUpdates)
       /\ \A p \in Procs :
            (pc[p] = "update" /\ pc'[p] # "update") =>
               /\ \A d \in DocIds \ {call[p].doc_id} :
                    RowsWithId(documents', d) = RowsWithId(documents, d)
               /\ Cardinality(RowsWithId(documents', call[p].doc_id))
                     = Cardinality(RowsWithId(documents, call[p].doc_id))]_vars


(***************************************************************************)
(* Claims on chunk_text                                                    *)
(***************************************************************************)

\* chunk_text has returned
ChunkTextReturned == kpc = "done"

\* C21: for the simple, paragraph, sentence and markdown strategies a unit
\* longer than chunk_size is cut by character slicing, so that no chunk
\* returned by chunk_text is longer than chunk_size characters (stated here
\* for the calls with chunk_overlap < chunk_size).
C21_NoChunkLongerThanSize ==
    (ChunkTextReturned /\ kcall.chunk_overlap < kcall.chunk_size) =>
        \A n \in 1 .. Len(kcall.chunks) : Len(kcall.chunks[n]) <= kcall.chunk_size


\* does unit occur in chunk as a run of consecutive characters
Occurs(unit, chunk) ==
    \E i \in 1 .. Len(chunk) - Len(unit) + 1 :
        SubSeq(chunk, i, i + Len(unit) - 1) = unit

\* the units from the i-th on are each contained in a chunk, the chunks of
\* later units not before those of earlier ones, starting with chunk n
RECURSIVE UnitsPlaced(_, _, _, _)
UnitsPlaced(units, i, chunks, n) ==
    IF i > Len(units) THEN TRUE
    ELSE LET holders == {m \in n .. Len(chunks) : Occurs(units[i], chunks[m])}
         IN /\ holders # {}
            /\ UnitsPlaced(units, i + 1, chunks, Least(holders))

\* the chunks from the n-th on are slices of text that leave no gap after
\* position end and reach the end of the text
RECURSIVE SlicesCover(_, _, _, _)
SlicesCover(text, chunks, n, end) ==
    IF n > Len(chunks) THEN end = Len(text)
    ELSE \E b \in end + 1 .. Len(text) :
            LET a == b - Len(chunks[n]) + 1
            IN /\ a >= 1
               /\ a <= end + 1
               /\ SubSeq(text, a, b) = chunks[n]
               /\ SlicesCover(text, chunks, n + 1, b)

\* chunk_text has returned from a call with the simple, markdown or sentence
\* strategy, a text that is not empty and chunk_overlap < chunk_size
UnitStrategyReturned ==
    /\ ChunkTextReturned
    /\ kcall.text # <<>>
    /\ kcall.applied \in {"simple", "markdown", "sentence"}
    /\ kcall.chunk_overlap < kcall.chunk_size

\* C22 as stated: for the simple, markdown and sentence strategies and every
\* chunk_overlap < chunk_size, each unit of the input (line, headed section,
\* sentence) is contained whole in at least one returned chunk and the units
\* keep their input order across the chunk list.
C22_UnitsWhole ==
    UnitStrategyReturned => UnitsPlaced(kcall.units, 1, kcall.chunks, 1)

\* C22 amended: the same, except for a text of the simple strategy that has
\* no line separator and is longer than chunk_size: it is cut by character
\* slicing, and the slices in their order cover every character of the text.
C22_UnitsWholeOrSliced ==
    UnitStrategyReturned =>
        IF kcall.by_character /\ Len(kcall.text) > kcall.chunk_size
        THEN SlicesCover(kcall.text, kcall.chunks, 1, 0)
        ELSE UnitsPlaced(kcall.units, 1, kcall.chunks, 1)

\* a text of two units, neither empty, returned in two chunks of which the
\* second repeats the first unit as overlap
C22_Witness ==
    /\ UnitStrategyReturned
    /\ ~kcall.by_character
    /\ kcall.chunk_overlap > 0
    /\ Len(kcall.units) = 2
    /\ \A i \in 1 .. Len(kcall.units) : kcall.units[i] # <<>>
    /\ Len(kcall.chunks) = 2
    /\ Len(kcall.chunks[2]) > Len(kcall.units[2])
    /\ UnitsPlaced(kcall.units, 1, kcall.chunks, 1)


\* chunk begins with a run of one or more characters that previous ends with
SharedBoundary(previous, chunk) ==
    \E n \in 1 .. Min(Len(previous), Len(chunk)) :
        SubSeq(chunk, 1, n) = SubSeq(previous, Len(previous) - n + 1, Len(previous))

\* C23: for the simple and paragraph strategies with chunk_overlap > 0,
\* whenever chunk_text returns more than one chunk, every chunk after the
\* first begins with content that also ends the chunk before it.
C23_AdjacentChunksOverlap ==
    (/\ ChunkTextReturned
     /\ kcall.applied \in {"simple", "paragraph"}
     /\ kcall.chunk_overlap > 0
     /\ kcall.chunk_overlap < kcall.chunk_size) =>
        \A n \in 2 .. Len(kcall.chunks) :
            SharedBoundary(kcall.chunks[n - 1], kcall.chunks[n])


\* C24: chunk_text returns the empty list for the empty text and, for every
\* strategy and every chunk_overlap < chunk_size, exactly one chunk whenever
\* 0 < len(text) < chunk_size.
C24_ShortTextOneChunk ==
    ChunkTextReturned =>
        /\ kcall.text = <<>> => kcall.chunks = <<>>
        /\ (/\ 0 < Len(kcall.text)
            /\ Len(kcall.text) < kcall.chunk_size
            /\ kcall.chunk_overlap < kcall.chunk_size) => Len(kcall.chunks) = 1


\* C30: chunk_text terminates and returns a finite list for every text,
\* every strategy and every chunk_size >= 1, also when chunk_overlap >=
\* chunk_size; in chunk_by_character the start position strictly increases
\* on every iteration.
C30_Terminates ==
    /\ <>ChunkTextReturned
    /\ [][kpc = "chunk_by_character" => kcall'.start > kcall.start]_vars

\* chunk_by_character has returned after three or more iterations with a
\* chunk_overlap that is not below chunk_size
C30_Witness ==
    /\ ChunkTextReturned
    /\ kcall.by_character
    /\ kcall.chunk_overlap >= kcall.chunk_size
    /\ Len(kcall.chunks) >= 3
    /\ kcall.start = Len(kcall.text)

\* no thread is inside generate_embeddings or clear_embedding_cache
CacheQuiet == \A t \in Threads : wpc[t] = "idle"

\* C26: under any interleaving of generate_embeddings and
\* clear_embedding_cache calls no update of the shared cache state is lost:
\* once the calls have returned, cache_hits + cache_misses is the number of
\* texts looked up since the last clear, and every vector written back since
\* then is in the cache.
C26_NoUpdateLost ==
    CacheQuiet =>
        /\ cache_hits + cache_misses = wlog.looked_up
        /\ \A w \in wlog.written : embedding_cache[w[1]] = <<w[2]>>

====
